---- MODULE Spec2Model ----
(***************************************************************************)
(* A model of the decision-and-risk layer of CaravanMasterX:               *)
(*   - DynamicRiskManager (src/src/strategy/dynamic_risk_manager.py)       *)
(*   - RiskManager.validate_trade (src/src/strategy/risk_management.py)    *)
(*   - EnhancedCaravanMasterX.execute_risk_adjusted_trade                  *)
(*   - EnhancedCaravanMasterStrategy scoring and base signal               *)
(*                                                                         *)
(* Numbers.  The program computes with binary floating point.  The model   *)
(* computes with exact rationals <<n, d>> (d > 0, lowest terms) extended   *)
(* by the IEEE specials a numpy scalar produces on a division by zero:     *)
(* <<1, 0>> is +inf, <<-1, 0>> is -inf and <<0, 0>> is nan.  Rounding of   *)
(* the last binary digit is not modelled.                                  *)
(***************************************************************************)
EXTENDS Integers, Sequences, FiniteSets, TLC

\* ------------------------------------------------------------- numbers

AbsInt(i) == IF i < 0 THEN -i ELSE i

RECURSIVE GCD(_, _)
GCD(a, b) == IF b = 0 THEN a ELSE GCD(b, a % b)

\* The rational n/d in lowest terms with a positive denominator (d # 0).
R(n, d) ==
    LET g == GCD(AbsInt(n), AbsInt(d))
        s == IF d < 0 THEN -1 ELSE 1
    IN  <<(s * n) \div g, (s * d) \div g>>

Int2R(i) == <<i, 1>>
PInf == <<1, 0>>
NInf == <<-1, 0>>
NaN == <<0, 0>>

IsFinite(x) == x[2] # 0
IsNaN(x) == x = NaN
IsZero(x) == IsFinite(x) /\ x[1] = 0
Sign(x) == IF x[1] > 0 THEN 1 ELSE IF x[1] < 0 THEN -1 ELSE 0

\* x < y as the float comparison decides it: false whenever a nan is involved.
Lt(x, y) ==
    IF IsNaN(x) \/ IsNaN(y) THEN FALSE
    ELSE IF IsFinite(x) /\ IsFinite(y) THEN x[1] * y[2] < y[1] * x[2]
    ELSE IF ~IsFinite(x) /\ ~IsFinite(y) THEN x[1] < y[1]
    ELSE IF ~IsFinite(x) THEN x[1] < 0
    ELSE y[1] > 0

Le(x, y) == ~IsNaN(x) /\ ~IsNaN(y) /\ ~Lt(y, x)
Gt(x, y) == Lt(y, x)
Ge(x, y) == Le(y, x)

\* abs(x)
Abs(x) == IF IsFinite(x) THEN <<AbsInt(x[1]), x[2]>> ELSE IF IsNaN(x) THEN NaN ELSE PInf

\* x - y and x + y of finite numbers (the program only adds and subtracts inputs)
Sub(x, y) == R(x[1] * y[2] - y[1] * x[2], x[2] * y[2])
Add(x, y) == R(x[1] * y[2] + y[1] * x[2], x[2] * y[2])

\* x * y
Mul(x, y) ==
    IF IsNaN(x) \/ IsNaN(y) THEN NaN
    ELSE IF IsFinite(x) /\ IsFinite(y) THEN R(x[1] * y[1], x[2] * y[2])
    ELSE IF Sign(x) * Sign(y) = 0 THEN NaN
    ELSE <<Sign(x) * Sign(y), 0>>

\* x / y where a zero divisor does not raise (numpy scalar): inf or nan
Div(x, y) ==
    IF IsNaN(x) \/ IsNaN(y) THEN NaN
    ELSE IF IsFinite(x) /\ IsFinite(y) THEN
        IF y[1] = 0 THEN <<Sign(x), 0>> ELSE R(x[1] * y[2], x[2] * y[1])
    ELSE IF ~IsFinite(x) /\ ~IsFinite(y) THEN NaN
    ELSE IF ~IsFinite(x) THEN <<Sign(x) * (IF y[1] < 0 THEN -1 ELSE 1), 0>>
    ELSE <<0, 1>>

\* Python's min(a, b) and max(a, b): the first argument unless the second beats it
PyMin(a, b) == IF Lt(b, a) THEN b ELSE a
PyMax(a, b) == IF Gt(b, a) THEN b ELSE a

\* x / y raises ZeroDivisionError: a Python float divided by zero.  A numpy
\* float64 operand (np) makes the division return inf or nan instead.
DivRaises(y, np) == ~np /\ IsZero(y)

\* ------------------------------------------------------------- bounds

\* prices of the pure-function calls: 96, 100, ..., 96 + 4 * MaxPriceIdx
MaxPriceIdx == 4
\* win and loss averages of the Kelly calls: -1 .. MaxWin
MaxWin == 3
\* the number of orders active_positions may hold in the model
MaxPositions == 4

\* -------------------------------------------- DynamicRiskManager config

base_risk_per_trade == R(1, 100)
max_portfolio_risk == R(30, 100)
max_total_exposure == R(90, 100)

\* market_regime.lower() on the regime strings the model passes
Lower(s) ==
    CASE s = "NORMAL" -> "normal"
      [] s = "Volatile" -> "volatile"
      [] OTHER -> s

\* a slip in the regime table: the volatile and extreme rows exchanged
_get_regime_multiplier_swapped(market_regime) ==
    LET r == Lower(market_regime)
    IN  CASE r = "normal" -> R(10, 10)
          [] r = "volatile" -> R(5, 10)
          [] r = "extreme" -> R(7, 10)
          [] OTHER -> R(10, 10)

_get_regime_multiplier(market_regime) ==
    LET r == Lower(market_regime)
    IN  CASE r = "normal" -> R(10, 10)
          [] r = "volatile" -> R(7, 10)
          [] r = "extreme" -> R(5, 10)
          [] OTHER -> R(10, 10)

Zero == Int2R(0)

\* The result of a call that raised: no value is returned.
Raised(what) ==
    [raised |-> what, position_size_usd |-> Zero, position_size_base |-> Zero,
     risk_amount |-> Zero, leverage |-> Zero, stop_loss_pct |-> Zero,
     regime_multiplier |-> Zero]

\* stop_loss_pct = abs(entry_price - stop_loss) / entry_price
stop_loss_pct(entry_price, stop_loss) ==
    Div(Abs(Sub(entry_price, stop_loss)), entry_price)

\* adjusted_risk_amount = (account_balance * base_risk_per_trade
\*                         / volatility_adjustment) * regime_multiplier
adjusted_risk_amount(account_balance, volatility_adjustment, market_regime) ==
    LET base_risk_amount == Mul(account_balance, base_risk_per_trade)
        volatility_adjusted_risk == Div(base_risk_amount, volatility_adjustment)
    IN  Mul(volatility_adjusted_risk, _get_regime_multiplier(market_regime))

\* a sizing that forgets the cap
final_position_size_uncapped(position_size, max_position_size) == position_size

\* final_position_size = min(position_size, max_position_size)
final_position_size(position_size, max_position_size) ==
    PyMin(position_size, max_position_size)

\* DynamicRiskManager.calculate_position_size.  np: entry_price and stop_loss
\* are numpy float64 scalars (prices read from a DataFrame); account_balance
\* and volatility_adjustment are Python floats.
calculate_position_size(account_balance, entry_price, stop_loss, volatility_adjustment, market_regime, np) ==
    LET pct == stop_loss_pct(entry_price, stop_loss)
        risk == adjusted_risk_amount(account_balance, volatility_adjustment, market_regime)
        position_size == Div(risk, pct)
        max_position_size == Mul(account_balance, max_portfolio_risk)
        final == final_position_size(position_size, max_position_size)
        leverage == IF Gt(account_balance, Zero)
                    THEN Div(final, account_balance)
                    ELSE Int2R(1)
    IN  IF \/ DivRaises(entry_price, np)               \* line 68
           \/ DivRaises(volatility_adjustment, FALSE)  \* line 74
           \/ DivRaises(pct, np)                       \* line 81
           \/ DivRaises(account_balance, FALSE)        \* line 94
        THEN Raised("ZeroDivisionError")
        ELSE [raised |-> "none",
              position_size_usd |-> final,
              position_size_base |-> Div(final, entry_price),
              risk_amount |-> risk,
              leverage |-> leverage,
              stop_loss_pct |-> pct,
              regime_multiplier |-> _get_regime_multiplier(market_regime)]

\* DynamicRiskManager.calculate_kelly_criterion
calculate_kelly_criterion(win_rate, avg_win, avg_loss) ==
    IF Le(avg_loss, Zero) THEN [raised |-> "none", value |-> Zero]
    ELSE
        LET b == Div(avg_win, avg_loss)
            p == win_rate
            q == Sub(Int2R(1), win_rate)
            kelly_fraction == Div(Sub(Mul(b, p), q), b)
            conservative_kelly ==
                PyMax(Zero, PyMin(Mul(kelly_fraction, R(5, 10)), R(25, 100)))
        IN  IF DivRaises(b, FALSE)
            THEN [raised |-> "ZeroDivisionError", value |-> Zero]
            ELSE [raised |-> "none", value |-> conservative_kelly]

\* ------------------------------------------------------- RiskManager

\* config.get('min_risk_reward_ratio', 2.0); TRADING_CONFIG sets 2.0 as well
min_risk_reward_ratio == R(20, 10)

\* a validation that demands more than the minimum ratio (> instead of >=)
validate_trade_strict(entry_price, take_profit, stop_loss) ==
    LET risk == Abs(Sub(entry_price, stop_loss))
        reward == Abs(Sub(take_profit, entry_price))
        risk_reward_ratio == Div(reward, risk)
    IN  IF Le(risk, Zero)
        THEN [valid |-> FALSE, reason |-> "Invalid stop loss",
              has_ratio |-> FALSE, risk_reward_ratio |-> Zero,
              risk_amount |-> risk, reward_amount |-> reward]
        ELSE [valid |-> Gt(risk_reward_ratio, min_risk_reward_ratio),
              reason |-> IF Gt(risk_reward_ratio, min_risk_reward_ratio)
                         THEN "" ELSE "Risk/reward ratio below minimum",
              has_ratio |-> TRUE, risk_reward_ratio |-> risk_reward_ratio,
              risk_amount |-> risk, reward_amount |-> reward]

\* a validation that measures the reward from the stop instead of the entry
validate_trade_reward_from_stop(entry_price, take_profit, stop_loss) ==
    LET risk == Abs(Sub(entry_price, stop_loss))
        reward == Abs(Sub(take_profit, stop_loss))
        risk_reward_ratio == Div(reward, risk)
    IN  IF Le(risk, Zero)
        THEN [valid |-> FALSE, reason |-> "Invalid stop loss",
              has_ratio |-> FALSE, risk_reward_ratio |-> Zero,
              risk_amount |-> risk, reward_amount |-> reward]
        ELSE [valid |-> Ge(risk_reward_ratio, min_risk_reward_ratio),
              reason |-> IF Ge(risk_reward_ratio, min_risk_reward_ratio)
                         THEN "" ELSE "Risk/reward ratio below minimum",
              has_ratio |-> TRUE, risk_reward_ratio |-> risk_reward_ratio,
              risk_amount |-> risk, reward_amount |-> reward]

\* RiskManager.validate_trade
validate_trade(entry_price, take_profit, stop_loss) ==
    LET risk == Abs(Sub(entry_price, stop_loss))
        reward == Abs(Sub(take_profit, entry_price))
        risk_reward_ratio == Div(reward, risk)
    IN  IF Le(risk, Zero)
        THEN [valid |-> FALSE, reason |-> "Invalid stop loss",
              has_ratio |-> FALSE, risk_reward_ratio |-> Zero,
              risk_amount |-> risk, reward_amount |-> reward]
        ELSE [valid |-> Ge(risk_reward_ratio, min_risk_reward_ratio),
              reason |-> IF Ge(risk_reward_ratio, min_risk_reward_ratio)
                         THEN "" ELSE "Risk/reward ratio below minimum",
              has_ratio |-> TRUE, risk_reward_ratio |-> risk_reward_ratio,
              risk_amount |-> risk, reward_amount |-> reward]

\* ------------------------------------------------------------- state

VARIABLES
    call,              \* the last call of a pure operation: its arguments and result
    active_positions,  \* EnhancedCaravanMasterX.active_positions
    trade,             \* the last execute_risk_adjusted_trade: its arguments and outcome
    analysis,          \* one symbol's symbol_analysis in execute_enhanced_four_tier_analysis
    base_signal,       \* the outcome of _generate_base_signal on that analysis
    cycle,             \* one cycle over the trading pairs: analysis, then signals
    twap,              \* TWAPStrategy.execution_schedules and the order loop
    dune,              \* DuneAPI: the clock, last_request_time and the requests sent
    client             \* DuneAPIClient: request_times, cache and its coroutines

riskVars == <<call>>
tradeVars == <<active_positions, trade>>
signalVars == <<analysis, base_signal>>
cycleVars == <<cycle>>
twapVars == <<twap>>
duneVars == <<dune, client>>
vars == <<call, active_positions, trade, analysis, base_signal, cycle, twap, dune, client>>

\* ------------------------------------------------------ input domains

GridPrices == {Int2R(96 + 4 * i) : i \in 0..MaxPriceIdx}
\* the grid, a zero and a negative price
Prices == GridPrices \cup {Zero, Int2R(-100)}
Balances == {Int2R(-1000), Zero, Int2R(1000)}
VolAdjustments == {Int2R(-1), Zero, R(5, 10), R(8, 10), R(10, 10), R(12, 10)}
Regimes == {"normal", "volatile", "extreme", "NORMAL", "Volatile", "sideways"}
WinRates == {R(i, 4) : i \in 0..4}
Averages == {Int2R(i) : i \in -1..MaxWin}

\* ------------------------------------------------------------- actions

\* A pure operation is called once on arguments drawn at the start: call holds
\* the arguments, and the result once the operation has returned or raised.
PendingCalls ==
    {[op |-> "calculate_position_size", done |-> FALSE,
      account_balance |-> b, entry_price |-> e, stop_loss |-> s,
      volatility_adjustment |-> v, market_regime |-> r, np |-> np] :
        b \in Balances, e \in Prices, s \in Prices, v \in VolAdjustments,
        r \in Regimes, np \in BOOLEAN}
    \cup
    {[op |-> "calculate_kelly_criterion", done |-> FALSE,
      win_rate |-> p, avg_win |-> w, avg_loss |-> l] :
        p \in WinRates, w \in Averages, l \in Averages}
    \cup
    {[op |-> "validate_trade", done |-> FALSE,
      entry_price |-> e, take_profit |-> t, stop_loss |-> s] :
        e \in Prices, t \in Prices, s \in Prices}

\* a pending call of a pure operation, no trade executed yet
InitRisk ==
    /\ call \in PendingCalls
    /\ active_positions = <<>>
    /\ trade = [status |-> "none"]
    /\ analysis = [phase |-> "idle"]
    /\ base_signal = [raised |-> "idle"]
    /\ cycle = [pc |-> "idle"]
    /\ twap = [pc |-> "idle"]
    /\ dune = [pc |-> "idle"]
    /\ client = [pc |-> "idle"]

CalculatePositionSize ==
    /\ call.op = "calculate_position_size" /\ ~call.done
    /\ call' = [op |-> call.op, done |-> TRUE,
                account_balance |-> call.account_balance,
                entry_price |-> call.entry_price, stop_loss |-> call.stop_loss,
                volatility_adjustment |-> call.volatility_adjustment,
                market_regime |-> call.market_regime, np |-> call.np,
                result |-> calculate_position_size(call.account_balance,
                               call.entry_price, call.stop_loss,
                               call.volatility_adjustment, call.market_regime, call.np)]
    /\ UNCHANGED <<tradeVars, signalVars, cycleVars, twapVars, duneVars>>

CalculateKellyCriterion ==
    /\ call.op = "calculate_kelly_criterion" /\ ~call.done
    /\ call' = [op |-> call.op, done |-> TRUE,
                win_rate |-> call.win_rate, avg_win |-> call.avg_win,
                avg_loss |-> call.avg_loss,
                result |-> calculate_kelly_criterion(call.win_rate, call.avg_win,
                                                     call.avg_loss)]
    /\ UNCHANGED <<tradeVars, signalVars, cycleVars, twapVars, duneVars>>

ValidateTrade ==
    /\ call.op = "validate_trade" /\ ~call.done
    /\ call' = [op |-> call.op, done |-> TRUE,
                entry_price |-> call.entry_price, take_profit |-> call.take_profit,
                stop_loss |-> call.stop_loss,
                result |-> validate_trade(call.entry_price, call.take_profit,
                                          call.stop_loss)]
    /\ UNCHANGED <<tradeVars, signalVars, cycleVars, twapVars, duneVars>>

NextRisk == CalculatePositionSize \/ CalculateKellyCriterion \/ ValidateTrade

\* The risk operations on their own
SpecRisk == InitRisk /\ [][NextRisk]_vars

\* ------------------------------------- execute_risk_adjusted_trade

\* dict.get(key, default) on a dict modelled as a function
Get(d, k, default) == IF k \in DOMAIN d THEN d[k] ELSE default

\* a dict is truthy when it is not empty
Truthy(d) == DOMAIN d # {}

\* The signals handed to execute_risk_adjusted_trade: direction LONG as
\* generate_trading_signals builds them, risk_metrics empty or carrying a
\* volatility adjustment, prices Python floats or numpy float64 (np).
TradePrices == {Int2R(96), Int2R(100)}
RiskMetricsSet == {<<>>, [volatility_adjustment |-> R(5, 10)]}
Signals ==
    [symbol : {"BTC-USD"}, direction : {"LONG"},
     entry_price : TradePrices, stop_loss : TradePrices,
     risk_metrics : RiskMetricsSet, np : BOOLEAN]
TradeBalances == {Int2R(1000)}

\* risk_check = {'approved': True, 'size_reduction_factor': 1.0}
risk_check == [approved |-> TRUE, size_reduction_factor |-> Int2R(1)]

\* The order execute_risk_adjusted_trade builds (take_profit, confidence_score,
\* risk_metrics and timestamp are copied through and left out here).
trade_order(signal, position_info) ==
    [symbol |-> signal.symbol, direction |-> signal.direction,
     entry_price |-> signal.entry_price, stop_loss |-> signal.stop_loss,
     position_size_usd |-> Mul(position_info.position_size_usd,
                               risk_check.size_reduction_factor),
     leverage |-> position_info.leverage]

\* EnhancedCaravanMasterX.execute_risk_adjusted_trade(signal, account_balance).
\* An exception of calculate_position_size leaves the coroutine: nothing is
\* appended and nothing is returned.
ExecuteRiskAdjustedTrade ==
    /\ Len(active_positions) < MaxPositions
    /\ \E signal \in Signals, account_balance \in TradeBalances :
         LET rm == signal.risk_metrics
             position_info ==
                 calculate_position_size(
                     account_balance, signal.entry_price, signal.stop_loss,
                     IF Truthy(rm) THEN Get(rm, "volatility_adjustment", Int2R(1))
                                   ELSE Int2R(1),
                     IF Truthy(rm) THEN Get(rm, "market_regime", "normal")
                                   ELSE "normal",
                     signal.np)
         IN  IF position_info.raised # "none"
             THEN /\ trade' = [status |-> "raised", error |-> position_info.raised,
                               signal |-> signal, account_balance |-> account_balance]
                  /\ UNCHANGED active_positions
             ELSE IF ~risk_check.approved
             THEN /\ trade' = [status |-> "rejected", error |-> "Risk limits exceeded",
                               signal |-> signal, account_balance |-> account_balance]
                  /\ UNCHANGED active_positions
             ELSE /\ active_positions' =
                        Append(active_positions, trade_order(signal, position_info))
                  /\ trade' = [status |-> "executed", error |-> "",
                               signal |-> signal, account_balance |-> account_balance]
    /\ UNCHANGED <<riskVars, signalVars, cycleVars, twapVars, duneVars>>

NextTrade == ExecuteRiskAdjustedTrade

\* EnhancedCaravanMasterX.__init__: no position yet
InitTrade ==
    /\ call = [op |-> "none", done |-> TRUE]
    /\ active_positions = <<>>
    /\ trade = [status |-> "none"]
    /\ analysis = [phase |-> "idle"]
    /\ base_signal = [raised |-> "idle"]
    /\ cycle = [pc |-> "idle"]
    /\ twap = [pc |-> "idle"]
    /\ dune = [pc |-> "idle"]
    /\ client = [pc |-> "idle"]

\* Trade execution on its own
SpecTrade == InitTrade /\ [][NextTrade]_vars

\* ------------------------------------ EnhancedCaravanMasterStrategy

\* A tier result or the market intelligence is None or a dict; a dict is a
\* function from its keys.  The key "score" stands for f'{tier}_score'.
None == [kind |-> "None", d |-> <<>>]
Dict(d) == [kind |-> "dict", d |-> d]

\* the truth value Python gives the object: None and {} are false
IsTrue(v) == v.kind = "dict" /\ Truthy(v.d)

Tier(a, i) ==
    CASE i = 1 -> a.tier1 [] i = 2 -> a.tier2 [] i = 3 -> a.tier3 [] i = 4 -> a.tier4

\* tier_data and f'{tier}_score' in tier_data
HasScore(v) == IsTrue(v) /\ "score" \in DOMAIN v.d

RECURSIVE SumSeq(_)
SumSeq(q) == IF q = <<>> THEN Zero ELSE Add(Head(q), SumSeq(Tail(q)))

\* np.mean(scores)
Mean(scores) == Div(SumSeq(scores), Int2R(Len(scores)))

\* the scores list after the loop over tier1..tier4
RECURSIVE TierScoreList(_, _)
TierScoreList(a, i) ==
    IF i > 4 THEN <<>>
    ELSE (IF HasScore(Tier(a, i)) THEN <<Tier(a, i).d.score>> ELSE <<>>)
         \o TierScoreList(a, i + 1)

\* the score appended for the AI intelligence, if any
AiScoreList(a) ==
    IF IsTrue(a.ai_intelligence)
    THEN LET ai_sentiment == Get(a.ai_intelligence.d, "sentiment", "Neutral")
         IN  IF ai_sentiment = "Bullish" THEN <<Int2R(75)>>
             ELSE IF ai_sentiment = "Bearish" THEN <<Int2R(25)>>
             ELSE <<Int2R(50)>>
    ELSE <<>>

\* a score that leaves the AI intelligence out
_calculate_enhanced_score_tiers_only(a) ==
    LET scores == TierScoreList(a, 1)
    IN  IF scores # <<>> THEN Mean(scores) ELSE Int2R(50)

\* EnhancedCaravanMasterStrategy._calculate_enhanced_score
_calculate_enhanced_score(a) ==
    LET scores == TierScoreList(a, 1) \o AiScoreList(a)
    IN  IF scores # <<>> THEN Mean(scores) ELSE Int2R(50)

\* a confidence that forgets the cap at 1.0
_calculate_confidence_uncapped(a) ==
    LET available_tiers == Cardinality({i \in 1..4 : IsTrue(Tier(a, i))})
        base_confidence == R(available_tiers, 4)
    IN  IF IsTrue(a.ai_intelligence) THEN Add(base_confidence, R(1, 10))
        ELSE base_confidence

\* EnhancedCaravanMasterStrategy._calculate_confidence
_calculate_confidence(a) ==
    LET available_tiers == Cardinality({i \in 1..4 : IsTrue(Tier(a, i))})
        base_confidence == R(available_tiers, 4)
        boosted == IF IsTrue(a.ai_intelligence) THEN Add(base_confidence, R(1, 10))
                   ELSE base_confidence
    IN  PyMin(boosted, Int2R(1))

\* EnhancedCaravanMasterStrategy._generate_base_signal.  analysis_data.get('tier1',
\* {}) is None when the key holds None, and None.get raises AttributeError.
_generate_base_signal(symbol, a) ==
    LET enhanced_score == a.enhanced_score
        confidence == a.confidence
        tier1 == a.tier1
        current_price == Get(tier1.d, "current_price", Zero)
        action ==
            IF Ge(enhanced_score, Int2R(75)) /\ Ge(confidence, R(8, 10)) THEN "STRONG_BUY"
            ELSE IF Ge(enhanced_score, Int2R(65)) /\ Ge(confidence, R(7, 10)) THEN "BUY"
            ELSE IF Le(enhanced_score, Int2R(25)) /\ Ge(confidence, R(8, 10)) THEN "STRONG_SELL"
            ELSE IF Le(enhanced_score, Int2R(35)) /\ Ge(confidence, R(7, 10)) THEN "SELL"
            ELSE "HOLD"
        leverage ==
            CASE action \in {"STRONG_BUY", "STRONG_SELL"} -> 15
              [] action \in {"BUY", "SELL"} -> 12
              [] OTHER -> 1
        long == action \in {"BUY", "STRONG_BUY"}
        short == action \in {"SELL", "STRONG_SELL"}
    IN  IF tier1.kind = "None"
        THEN [raised |-> "AttributeError", symbol |-> symbol, action |-> "",
              entry_price |-> Zero, take_profit |-> Zero, stop_loss |-> Zero,
              leverage |-> 0, confidence |-> Zero]
        ELSE [raised |-> "none", symbol |-> symbol, action |-> action,
              entry_price |-> IF long THEN Mul(current_price, R(998, 1000))
                              ELSE IF short THEN Mul(current_price, R(1002, 1000))
                              ELSE current_price,
              take_profit |-> IF long THEN Mul(current_price, R(106, 100))
                              ELSE IF short THEN Mul(current_price, R(94, 100))
                              ELSE current_price,
              stop_loss |-> IF long THEN Mul(current_price, R(96, 100))
                            ELSE IF short THEN Mul(current_price, R(104, 100))
                            ELSE current_price,
              leverage |-> leverage, confidence |-> confidence]

\* Tier scores lie in [0, 100].
TierScores == {Int2R(0), Int2R(25), Int2R(70), Int2R(75), Int2R(80), Int2R(100)}

\* _enhanced_tier1_analysis returns None on an exception and otherwise a dict
\* holding current_price and tier1_score.
Tier1Values ==
    {None} \cup {Dict([score |-> x, current_price |-> Int2R(100)]) : x \in TierScores}

\* Tiers 2 to 4: None, a dict with the tier's score, or a dict without one (the
\* key is optional: _calculate_enhanced_score tests for it).
TierValues ==
    {None, Dict([error |-> "failed"])} \cup {Dict([score |-> x]) : x \in TierScores}

\* market_intelligence: None (the default, and generate_market_analysis after an
\* exception), {}, the enhanced analysis with its sentiment label, or the
\* Perplexity error dict that _enhance_analysis hands back when it fails
AiValues ==
    {None, Dict(<<>>), Dict([error |-> "API request failed"])}
    \cup {Dict([sentiment |-> l]) : l \in {"Bullish", "Bearish", "Neutral"}}

\* One symbol of execute_enhanced_four_tier_analysis: the price snapshot has
\* been fetched (or not) and the four tiers have returned.
InitSignal ==
    /\ call = [op |-> "none", done |-> TRUE]
    /\ active_positions = <<>>
    /\ trade = [status |-> "none"]
    /\ \/ analysis = [phase |-> "input", symbol |-> "BTC/USDT", price_data |-> FALSE]
       \/ \E t1 \in Tier1Values, t2 \in TierValues, t3 \in TierValues,
             t4 \in TierValues, ai \in AiValues :
            analysis = [phase |-> "input", symbol |-> "BTC/USDT", price_data |-> TRUE,
                        tier1 |-> t1, tier2 |-> t2, tier3 |-> t3, tier4 |-> t4,
                        ai_intelligence |-> ai]
    /\ base_signal = [raised |-> "idle"]
    /\ cycle = [pc |-> "idle"]
    /\ twap = [pc |-> "idle"]
    /\ dune = [pc |-> "idle"]
    /\ client = [pc |-> "idle"]

\* The loop body of execute_enhanced_four_tier_analysis for one symbol: skip it
\* without price data, else score the symbol_analysis and store it.
AnalyseSymbol ==
    /\ analysis.phase = "input"
    /\ IF ~analysis.price_data
       THEN analysis' = [phase |-> "skipped", symbol |-> analysis.symbol,
                         price_data |-> FALSE]
       ELSE analysis' =
              [phase |-> "analysed", symbol |-> analysis.symbol, price_data |-> TRUE,
               tier1 |-> analysis.tier1, tier2 |-> analysis.tier2,
               tier3 |-> analysis.tier3, tier4 |-> analysis.tier4,
               ai_intelligence |-> analysis.ai_intelligence,
               enhanced_score |-> _calculate_enhanced_score(analysis),
               confidence |-> _calculate_confidence(analysis)]
    /\ UNCHANGED <<riskVars, tradeVars, base_signal, cycleVars, twapVars, duneVars>>

\* generate_precision_signals calls _generate_base_signal on the stored analysis
GenerateBaseSignal ==
    /\ analysis.phase = "analysed"
    /\ base_signal' = _generate_base_signal(analysis.symbol, analysis)
    /\ analysis' = [analysis EXCEPT !.phase = "signalled"]
    /\ UNCHANGED <<riskVars, tradeVars, cycleVars, twapVars, duneVars>>

NextSignal == AnalyseSymbol \/ GenerateBaseSignal

\* Scoring and base signal of one symbol
SpecSignal == InitSignal /\ [][NextSignal]_vars

\* ------------------------------------------------------- TWAPStrategy

\* intervals = 12  # Execute every 5 minutes
intervals == 12

\* the slices without the last one
twap_slices_short(total_amount, duration_minutes) ==
    [i \in 1..(intervals - 1) |->
        [interval |-> i, amount |-> Div(total_amount, Int2R(intervals)),
         timestamp |-> Int2R((i - 1) * 5), status |-> "PENDING"]]

\* The schedule create_execution_schedule builds.  A timestamp is kept as the
\* minutes after the call's datetime.now(); duration_minutes is not read.
twap_slices(total_amount, duration_minutes) ==
    [i \in 1..intervals |->
        [interval |-> i, amount |-> Div(total_amount, Int2R(intervals)),
         timestamp |-> Int2R((i - 1) * 5), status |-> "PENDING"]]

\* d[k] = v of a Python dict
SetItem(d, k, v) == (k :> v) @@ d

\* TWAPStrategy.__init__: no schedule, no call made yet
TwapReady ==
    [pc |-> "ready", execution_schedules |-> <<>>, created |-> <<>>,
     symbol |-> "", k |-> 0, placed |-> <<>>, returned |-> "none"]

TwapSymbols == {"BTC/USDT", "ETH/USDT"}
TwapAmounts == {Int2R(1200), Int2R(100), R(5, 10)}
TwapDurations == {60, 120}

InitTwap ==
    /\ call = [op |-> "none", done |-> TRUE]
    /\ active_positions = <<>>
    /\ trade = [status |-> "none"]
    /\ analysis = [phase |-> "idle"]
    /\ base_signal = [raised |-> "idle"]
    /\ cycle = [pc |-> "idle"]
    /\ twap = TwapReady
    /\ dune = [pc |-> "idle"]
    /\ client = [pc |-> "idle"]

\* create_execution_schedule(symbol, total_amount, duration_minutes)
CreateExecutionSchedule ==
    /\ twap.pc = "ready"
    /\ twap.created = <<>>
    /\ \E symbol \in TwapSymbols, total_amount \in TwapAmounts,
          duration_minutes \in TwapDurations :
         LET schedule == twap_slices(total_amount, duration_minutes)
         IN  twap' = [twap EXCEPT
                 !.execution_schedules = SetItem(@, symbol, schedule),
                 !.created = [symbol |-> symbol, total_amount |-> total_amount,
                              duration_minutes |-> duration_minutes,
                              schedule |-> schedule]]
    /\ UNCHANGED <<riskVars, tradeVars, signalVars, cycleVars, duneVars>>

\* execute_twap_order(symbol) up to its first await: False without a schedule
ExecuteTwapOrder ==
    /\ twap.pc = "ready"
    /\ \E symbol \in TwapSymbols :
         IF symbol \notin DOMAIN twap.execution_schedules
         THEN twap' = [twap EXCEPT !.pc = "done", !.symbol = symbol,
                                   !.returned = "False"]
         ELSE twap' = [twap EXCEPT !.pc = "executing", !.symbol = symbol, !.k = 1]
    /\ UNCHANGED <<riskVars, tradeVars, signalVars, cycleVars, duneVars>>

\* One turn of the loop of execute_twap_order: the order placement reports
\* success or failure; only a success changes the slice.  After the last slice
\* the call returns True.
PlaceSliceOrder ==
    /\ twap.pc = "executing"
    /\ \E success \in BOOLEAN :
         LET order == twap.execution_schedules[twap.symbol][twap.k]
             attempted == order.status = "PENDING"
             status == IF attempted /\ success THEN "EXECUTED" ELSE order.status
             last == twap.k = Len(twap.execution_schedules[twap.symbol])
         IN  twap' = [twap EXCEPT
                 !.execution_schedules[twap.symbol][twap.k].status = status,
                 !.placed = Append(@, IF attempted THEN success ELSE FALSE),
                 !.k = IF last THEN @ ELSE @ + 1,
                 !.pc = IF last THEN "done" ELSE @,
                 !.returned = IF last THEN "True" ELSE @]
    /\ UNCHANGED <<riskVars, tradeVars, signalVars, cycleVars, duneVars>>

NextTwap == CreateExecutionSchedule \/ ExecuteTwapOrder \/ PlaceSliceOrder

\* A schedule is created, or not, and one call of execute_twap_order runs
SpecTwap == InitTwap /\ [][NextTwap]_vars

\* --------------------------------------------------- precision entries

\* a ladder that uses the long discounts for every direction
_calculate_precision_entries_no_mirror(base_price, action) ==
    IF action \in {"BUY", "STRONG_BUY", "SELL", "STRONG_SELL"}
    THEN [primary |-> base_price,
          secondary |-> Mul(base_price, R(995, 1000)),
          tertiary |-> Mul(base_price, R(990, 1000))]
    ELSE [primary |-> base_price]

\* EnhancedCaravanMasterStrategy._calculate_precision_entries
_calculate_precision_entries(base_price, action) ==
    IF action \in {"BUY", "STRONG_BUY"}
    THEN [primary |-> base_price,
          secondary |-> Mul(base_price, R(995, 1000)),
          tertiary |-> Mul(base_price, R(990, 1000))]
    ELSE IF action \in {"SELL", "STRONG_SELL"}
    THEN [primary |-> base_price,
          secondary |-> Mul(base_price, R(1005, 1000)),
          tertiary |-> Mul(base_price, R(1010, 1000))]
    ELSE [primary |-> base_price]

\* ------------------------------------------------------ VolatilityAdjuster

\* most closes a price history of the model holds
MaxCloses == 16

\* period=14 of _calculate_historical_volatility
period == 14

\* a step function whose boundaries belong to the lower-volatility band
_get_adjustment_factor_inclusive(volatility) ==
    IF Le(volatility, R(5, 100)) THEN R(12, 10)
    ELSE IF Le(volatility, R(1, 10)) THEN Int2R(1)
    ELSE IF Le(volatility, R(2, 10)) THEN R(8, 10)
    ELSE R(5, 10)

\* VolatilityAdjuster._get_adjustment_factor
_get_adjustment_factor(volatility) ==
    IF Lt(volatility, R(5, 100)) THEN R(12, 10)
    ELSE IF Lt(volatility, R(1, 10)) THEN Int2R(1)
    ELSE IF Lt(volatility, R(2, 10)) THEN R(8, 10)
    ELSE R(5, 10)

\* VolatilityAdjuster._calculate_historical_volatility on the reply of
\* get_historical_data.  PionexAPI hands back the parsed JSON, a dict without
\* the key 'close': data['close'] raises KeyError.  On a price frame of
\* data.closes rows the log returns are one fewer than the rows (the first is
\* nan), returns.rolling(period).std() is nan until period returns are in the
\* window, and .iloc[-1] of an empty series raises IndexError.  data.volatility
\* is the annualized figure the frame yields once it is long enough.
_calculate_historical_volatility(data) ==
    IF data.kind = "json" THEN [raised |-> "KeyError", value |-> NaN]
    ELSE IF data.closes = 0 THEN [raised |-> "IndexError", value |-> NaN]
    ELSE IF data.closes - 1 < period THEN [raised |-> "none", value |-> NaN]
    ELSE [raised |-> "none", value |-> data.volatility]

\* VolatilityAdjuster.calculate_position_size(symbol, base_size)
volatility_position_size(data, base_size) ==
    LET volatility == _calculate_historical_volatility(data)
        adjustment_factor == _get_adjustment_factor(volatility.value)
    IN  IF volatility.raised # "none"
        THEN [raised |-> volatility.raised, volatility |-> NaN,
              adjustment_factor |-> NaN, value |-> NaN]
        ELSE [raised |-> "none", volatility |-> volatility.value,
              adjustment_factor |-> adjustment_factor,
              value |-> Mul(base_size, adjustment_factor)]

\* ------------------------------------------------------ PortfolioOptimizer

\* most assets a weight vector of the model holds
MaxAssets == 2

\* numpy arithmetic on arrays: element-wise, a zero divisor gives inf or nan
SubF(x, y) == IF IsFinite(x) /\ IsFinite(y) THEN Sub(x, y) ELSE IF IsFinite(x) THEN NaN ELSE x
AddF(x, y) ==
    IF IsFinite(x) /\ IsFinite(y) THEN Add(x, y)
    ELSE IF IsNaN(x) \/ IsNaN(y) THEN NaN
    ELSE IF ~IsFinite(x) /\ ~IsFinite(y) /\ x # y THEN NaN
    ELSE IF IsFinite(x) THEN y ELSE x

RECURSIVE NpSum(_)
NpSum(w) == IF w = <<>> THEN Zero ELSE AddF(Head(w), NpSum(Tail(w)))

\* a rebalancing that renormalizes by the sum of the unscaled targets
dynamic_rebalancing_unscaled_sum(current_weights, target_weights, volatility_adjustment) ==
    LET scaled == [i \in DOMAIN target_weights |->
                      Mul(target_weights[i], volatility_adjustment)]
        adjusted_targets == [i \in DOMAIN scaled |-> Div(scaled[i], NpSum(target_weights))]
    IN  [adjusted_targets |-> adjusted_targets,
         trade_amounts |-> [i \in DOMAIN adjusted_targets |->
                               SubF(adjusted_targets[i], current_weights[i])]]

\* PortfolioOptimizer.dynamic_rebalancing on arrays of one length
dynamic_rebalancing(current_weights, target_weights, volatility_adjustment) ==
    LET scaled == [i \in DOMAIN target_weights |->
                      Mul(target_weights[i], volatility_adjustment)]
        adjusted_targets == [i \in DOMAIN scaled |-> Div(scaled[i], NpSum(scaled))]
    IN  [adjusted_targets |-> adjusted_targets,
         trade_amounts |-> [i \in DOMAIN adjusted_targets |->
                               SubF(adjusted_targets[i], current_weights[i])]]

\* ----------------------------------------- calls of the utility operations

EntryPrices == {Int2R(-100), Zero, R(998, 10), Int2R(100), R(1002, 10), Int2R(200)}
Actions == {"STRONG_BUY", "BUY", "STRONG_SELL", "SELL", "HOLD"}

Volatilities ==
    {R(-1, 100), Zero, R(4, 100), R(5, 100), R(7, 100), R(1, 10), R(15, 100),
     R(2, 10), R(5, 10), PInf, NaN}

\* what get_historical_data hands back: the JSON reply, or a price frame
Histories ==
    {[kind |-> "json", closes |-> 0, volatility |-> NaN]}
    \cup {[kind |-> "frame", closes |-> n, volatility |-> v] :
            n \in 0..MaxCloses, v \in {R(4, 100), R(15, 100), R(5, 10)}}

BaseSizes == {Int2R(100), Int2R(20)}

WeightGrid == {Zero, R(1, 4), R(1, 2)}
WeightVectors == UNION {[1..n -> WeightGrid] : n \in 1..MaxAssets}
Adjustments == {Zero, R(5, 10), Int2R(1), R(12, 10)}

UtilityCalls ==
    {[op |-> "_calculate_precision_entries", done |-> FALSE,
      base_price |-> b, action |-> a] : b \in EntryPrices, a \in Actions}
    \cup
    {[op |-> "_get_adjustment_factor", done |-> FALSE, volatility |-> v] :
        v \in Volatilities}
    \cup
    {[op |-> "volatility_position_size", done |-> FALSE, data |-> h, base_size |-> b] :
        h \in Histories, b \in BaseSizes}
    \cup
    {[op |-> "dynamic_rebalancing", done |-> FALSE, current_weights |-> w[1],
      target_weights |-> w[2], volatility_adjustment |-> v] :
        w \in {x \in WeightVectors \X WeightVectors : Len(x[1]) = Len(x[2])},
        v \in Adjustments}

\* a pending call of a utility operation
InitUtility ==
    /\ call \in UtilityCalls
    /\ active_positions = <<>>
    /\ trade = [status |-> "none"]
    /\ analysis = [phase |-> "idle"]
    /\ base_signal = [raised |-> "idle"]
    /\ cycle = [pc |-> "idle"]
    /\ twap = [pc |-> "idle"]
    /\ dune = [pc |-> "idle"]
    /\ client = [pc |-> "idle"]

CalculatePrecisionEntries ==
    /\ call.op = "_calculate_precision_entries" /\ ~call.done
    /\ call' = [done |-> TRUE,
                result |-> _calculate_precision_entries(call.base_price, call.action)]
               @@ call
    /\ UNCHANGED <<tradeVars, signalVars, cycleVars, twapVars, duneVars>>

GetAdjustmentFactor ==
    /\ call.op = "_get_adjustment_factor" /\ ~call.done
    /\ call' = [done |-> TRUE, result |-> _get_adjustment_factor(call.volatility)]
               @@ call
    /\ UNCHANGED <<tradeVars, signalVars, cycleVars, twapVars, duneVars>>

VolatilityPositionSize ==
    /\ call.op = "volatility_position_size" /\ ~call.done
    /\ call' = [done |-> TRUE,
                result |-> volatility_position_size(call.data, call.base_size)]
               @@ call
    /\ UNCHANGED <<tradeVars, signalVars, cycleVars, twapVars, duneVars>>

DynamicRebalancing ==
    /\ call.op = "dynamic_rebalancing" /\ ~call.done
    /\ call' = [done |-> TRUE,
                result |-> dynamic_rebalancing(call.current_weights,
                               call.target_weights, call.volatility_adjustment)]
               @@ call
    /\ UNCHANGED <<tradeVars, signalVars, cycleVars, twapVars, duneVars>>

NextUtility ==
    \/ CalculatePrecisionEntries
    \/ GetAdjustmentFactor
    \/ VolatilityPositionSize
    \/ DynamicRebalancing

\* The entry ladder, the volatility multiplier and the rebalancing on their own
SpecUtility == InitUtility /\ [][NextUtility]_vars

\* ------------------------------ one cycle: analysis, then precision signals

\* self.config.get('trading_pairs', ...)
trading_pairs == <<"BTC/USDT", "ETH/USDT">>

\* get_specific_price: None, or the price snapshot of the symbol
PriceData == {None, Dict([price |-> Int2R(100)])}

\* What a tier's collaborators (order book, volume profile, on-chain query)
\* do for one symbol: fail, or let the tier compute its score.
CycleScores == {Int2R(80), Int2R(20)}
TierOutcomes ==
    {[ok |-> FALSE, score |-> Zero]} \cup {[ok |-> TRUE, score |-> x] : x \in CycleScores}

CycleAi == {None, Dict([sentiment |-> "Bullish"]), Dict([sentiment |-> "Bearish"])}

\* a tier 1 that reports its failure as a dict
_enhanced_tier1_analysis_error_dict(price_data, outcome) ==
    IF ~outcome.ok THEN Dict([error |-> "failed"])
    ELSE Dict([current_price |-> price_data.d.price, score |-> outcome.score])

\* _enhanced_tier1_analysis: any exception of a collaborator is logged and None
\* is returned
_enhanced_tier1_analysis(price_data, outcome) ==
    IF ~outcome.ok THEN None
    ELSE Dict([current_price |-> price_data.d.price, score |-> outcome.score])

\* _enhanced_tier2_analysis, _enhanced_tier3_analysis, _enhanced_tier4_analysis:
\* a failed collaborator leaves the tier absent
_enhanced_tier_analysis(price_data, outcome) ==
    IF ~outcome.ok THEN None ELSE Dict([score |-> outcome.score])

\* symbol_analysis as execute_enhanced_four_tier_analysis builds and scores it
symbol_analysis(symbol, price_data, o, market_intelligence) ==
    LET a == [symbol |-> symbol,
              tier1 |-> _enhanced_tier1_analysis(price_data, o[1]),
              tier2 |-> _enhanced_tier_analysis(price_data, o[2]),
              tier3 |-> _enhanced_tier_analysis(price_data, o[3]),
              tier4 |-> _enhanced_tier_analysis(price_data, o[4]),
              ai_intelligence |-> market_intelligence]
    IN  [enhanced_score |-> _calculate_enhanced_score(a),
         confidence |-> _calculate_confidence(a)] @@ a

\* _enhance_signal_precision: a TWAP schedule for the strong actions, then the
\* precision entries
_enhance_signal_precision(symbol, base) ==
    LET strong == base.action \in {"STRONG_BUY", "STRONG_SELL"}
        with_twap ==
            IF strong
            THEN [execution_strategy |-> "TWAP",
                  twap_schedule |-> twap_slices(base.entry_price, 60)]
                 @@ base
            ELSE base
    IN  [precision_entries |->
            _calculate_precision_entries(base.entry_price, base.action)]
        @@ with_twap

\* what calculate_volatility_adjustment does: raise, return nothing, or return
\* the adjusted size and the multiplier
VolatilityReplies ==
    {[raised |-> TRUE, data |-> None], [raised |-> FALSE, data |-> None],
     [raised |-> FALSE,
      data |-> Dict([adjusted_position_size |-> Int2R(16),
                     volatility_multiplier |-> R(8, 10)])]}

\* _apply_volatility_adjustments
_apply_volatility_adjustments(signal, reply) ==
    IF ~reply.raised /\ IsTrue(reply.data)
    THEN [position_size_usdt |-> Get(reply.data.d, "adjusted_position_size", Int2R(20)),
          volatility_multiplier |-> Get(reply.data.d, "volatility_multiplier", Int2R(1))]
         @@ signal
    ELSE signal

\* the fields of the dict _generate_base_signal returns
signal_of(base) ==
    [symbol |-> base.symbol, action |-> base.action,
     entry_price |-> base.entry_price, take_profit |-> base.take_profit,
     stop_loss |-> base.stop_loss, leverage |-> base.leverage,
     confidence |-> base.confidence]

\* a filter that lets every action through
skip_signal_never(base) == FALSE

\* if base_signal['action'] == 'HOLD': continue
skip_signal(base) == base.action = "HOLD"

\* an exception of one symbol ends the loop
on_signal_error_abort(c, symbol) ==
    [c EXCEPT !.pc = "aborted", !.errors = Append(@, symbol)]

\* except Exception: logger.error(...); continue
on_signal_error(c, symbol) ==
    [c EXCEPT !.errors = Append(@, symbol)]

\* the analysis and the signal an earlier cycle left for the first pair
previous_analysis ==
    symbol_analysis(trading_pairs[1], Dict([price |-> Int2R(100)]),
                    [k \in 1..4 |-> [ok |-> TRUE, score |-> Int2R(80)]], None)
previous_signal ==
    _enhance_signal_precision(trading_pairs[1],
        signal_of(_generate_base_signal(trading_pairs[1], previous_analysis)))

\* last_analysis and active_signals when a cycle starts: as __init__ leaves
\* them (lines 35-36), or as an earlier cycle left them
CycleCaches ==
    {[last_analysis |-> None, active_signals |-> <<>>],
     [last_analysis |-> Dict(<<previous_analysis>>),
      active_signals |-> <<previous_signal>>]}

\* a cycle starts: the market intelligence is in, nothing analysed yet
InitCycle ==
    /\ call = [op |-> "none", done |-> TRUE]
    /\ active_positions = <<>>
    /\ trade = [status |-> "none"]
    /\ analysis = [phase |-> "idle"]
    /\ base_signal = [raised |-> "idle"]
    /\ \E mi \in CycleAi, caches \in CycleCaches :
         cycle = [pc |-> "analysis", i |-> 1, market_intelligence |-> mi,
                  replies |-> <<>>, analysis_results |-> <<>>,
                  last_analysis |-> caches.last_analysis,
                  signals |-> <<>>, active_signals |-> caches.active_signals,
                  errors |-> <<>>, previous |-> caches]
    /\ twap = TwapReady
    /\ dune = [pc |-> "idle"]
    /\ client = [pc |-> "idle"]

\* a loop that stores every symbol's analysis in the cache as soon as it has it
analysis_returned_in_place(c) ==
    IF c.i < Len(trading_pairs)
    THEN [c EXCEPT !.i = @ + 1, !.last_analysis = Dict(c.analysis_results)]
    ELSE [c EXCEPT !.last_analysis = Dict(c.analysis_results), !.i = 1,
                   !.active_signals = IF c.analysis_results = <<>> THEN <<>> ELSE @,
                   !.pc = IF c.analysis_results = <<>> THEN "done" ELSE "signals"]

\* the cycle record once execute_enhanced_four_tier_analysis has handled its
\* last symbol: last_analysis is set and generate_precision_signals takes the
\* result (with nothing analysed it returns the empty list at once)
analysis_returned(c) ==
    IF c.i < Len(trading_pairs) THEN [c EXCEPT !.i = @ + 1]
    ELSE [c EXCEPT !.last_analysis = Dict(c.analysis_results), !.i = 1,
                   !.active_signals = IF c.analysis_results = <<>> THEN <<>> ELSE @,
                   !.pc = IF c.analysis_results = <<>> THEN "done" ELSE "signals"]

\* One turn of the loop of execute_enhanced_four_tier_analysis: no price data,
\* or the four tiers run and the symbol is scored and stored.
AnalyseNextSymbol ==
    /\ cycle.pc = "analysis"
    /\ LET symbol == trading_pairs[cycle.i]
       IN  \/ cycle' = analysis_returned(
                  [cycle EXCEPT !.replies =
                      Append(@, [symbol |-> symbol, price_data |-> None, o |-> <<>>])])
           \/ \E price_data \in PriceData \ {None}, o \in [1..4 -> TierOutcomes] :
                cycle' = analysis_returned(
                  [cycle EXCEPT
                      !.replies = Append(@, [symbol |-> symbol,
                                             price_data |-> price_data, o |-> o]),
                      !.analysis_results =
                          Append(@, symbol_analysis(symbol, price_data, o,
                                                    cycle.market_intelligence))])
    /\ UNCHANGED <<riskVars, tradeVars, signalVars, twapVars, duneVars>>

\* the cycle record once generate_precision_signals has handled an item
signal_handled(c) ==
    IF c.pc = "aborted" THEN c
    ELSE IF c.i < Len(c.last_analysis.d) THEN [c EXCEPT !.i = @ + 1]
    ELSE [c EXCEPT !.active_signals = c.signals, !.pc = "done"]

\* One turn of the loop of generate_precision_signals over analysis.items().
GenerateNextSignal ==
    /\ cycle.pc = "signals"
    /\ LET data == cycle.last_analysis.d[cycle.i]
           base == _generate_base_signal(data.symbol, data)
       IN  IF base.raised # "none"
           THEN /\ cycle' = signal_handled(on_signal_error(cycle, data.symbol))
                /\ UNCHANGED twap
           ELSE IF skip_signal(base)
           THEN /\ cycle' = signal_handled(cycle)
                /\ UNCHANGED twap
           ELSE \E reply \in VolatilityReplies :
                  LET enhanced_signal ==
                          _enhance_signal_precision(data.symbol, signal_of(base))
                      final_signal == _apply_volatility_adjustments(enhanced_signal, reply)
                  IN  /\ cycle' = signal_handled(
                                     [cycle EXCEPT !.signals = Append(@, final_signal)])
                      /\ twap' = IF "twap_schedule" \in DOMAIN enhanced_signal
                                 THEN [twap EXCEPT !.execution_schedules =
                                          SetItem(@, data.symbol,
                                                  enhanced_signal.twap_schedule)]
                                 ELSE twap
    /\ UNCHANGED <<riskVars, tradeVars, signalVars, duneVars>>

\* The task running the cycle is cancelled at one of its awaits (lines 86-89,
\* 115): asyncio.CancelledError is no Exception, no handler of the cycle
\* catches it, and neither assignment to a cache (lines 99, 126) is reached.
CancelCycle ==
    /\ cycle.pc \in {"analysis", "signals"}
    /\ cycle' = [cycle EXCEPT !.pc = "idle"]
    /\ UNCHANGED <<riskVars, tradeVars, signalVars, twapVars, duneVars>>

NextCycle == AnalyseNextSymbol \/ GenerateNextSignal \/ CancelCycle

\* One cycle of run_enhanced_analysis over the trading pairs
SpecCycle == InitCycle /\ [][NextCycle]_vars

\* ------------------------------------------- PortfolioOptimizer: frontier

\* most target returns a frontier batch of the model holds
MaxTargets == 2

\* bounds that allow short and leveraged weights
weight_bounds_wide == <<Int2R(-1), Int2R(2)>>

\* bounds = tuple((0, 1) for _ in range(n_assets))
weight_bounds == <<Zero, Int2R(1)>>

\* np.sum(x * mean_returns)
Dot(x, m) == NpSum([i \in DOMAIN x |-> Mul(x[i], m[i])])

\* the weight vectors the solver may come back with
SolverGrid == {R(-1, 2), Zero, R(1, 2), Int2R(1), R(3, 2)}

\* scipy.optimize.minimize(..., method='SLSQP', bounds=bounds, constraints=...):
\* the solver fails, or it succeeds with an x within the bounds that meets the
\* equality constraints it was given: np.sum(x) - 1 = 0 and, with a target,
\* np.sum(x * mean_returns) - target_return = 0.  The solver's tolerance is not
\* modelled.
minimize(bounds, mean_returns, with_target, target_return) ==
    {[success |-> FALSE, x |-> <<>>]}
    \cup {[success |-> TRUE, x |-> x] :
            x \in {y \in [DOMAIN mean_returns -> SolverGrid] :
                     /\ \A i \in DOMAIN y : Le(bounds[1], y[i]) /\ Le(y[i], bounds[2])
                     /\ NpSum(y) = Int2R(1)
                     /\ with_target => Dot(y, mean_returns) = target_return}}

\* _optimize_portfolio once minimize has returned result.  The volatility and
\* the Sharpe ratio of the result need a square root and are left out; they are
\* numpy scalars, so a zero volatility does not raise.
_optimize_portfolio(mean_returns, target_return, result) ==
    IF result.success
    THEN [raised |-> "none", weights |-> result.x,
          expected_return |-> Dot(result.x, mean_returns)]
    ELSE [raised |-> "ValueError", weights |-> <<>>, expected_return |-> NaN]

\* maximize_sharpe_ratio once minimize has returned result
maximize_sharpe_ratio(mean_returns, result) ==
    IF result.success
    THEN [raised |-> "none", weights |-> result.x,
          expected_return |-> Dot(result.x, mean_returns)]
    ELSE [raised |-> "ValueError", weights |-> <<>>, expected_return |-> NaN]

\* a frontier that gives up at the first target the solver fails for
RECURSIVE calculate_efficient_frontier_abort(_, _, _)
calculate_efficient_frontier_abort(mean_returns, target_returns, solved) ==
    IF target_returns = <<>> THEN [raised |-> "none", results |-> <<>>]
    ELSE LET result == _optimize_portfolio(mean_returns, Head(target_returns),
                                           Head(solved))
         IN  IF result.raised # "none"
             THEN [raised |-> result.raised, results |-> <<>>]
             ELSE LET rest == calculate_efficient_frontier_abort(
                                  mean_returns, Tail(target_returns), Tail(solved))
                  IN  [raised |-> rest.raised,
                       results |-> IF rest.raised = "none"
                                   THEN <<result>> \o rest.results ELSE <<>>]

\* calculate_efficient_frontier: solved[i] is what minimize returns for the
\* i-th target; an exception of _optimize_portfolio is logged and the target
\* skipped
RECURSIVE calculate_efficient_frontier(_, _, _)
calculate_efficient_frontier(mean_returns, target_returns, solved) ==
    IF target_returns = <<>> THEN [raised |-> "none", results |-> <<>>]
    ELSE LET result == _optimize_portfolio(mean_returns, Head(target_returns),
                                           Head(solved))
             rest == calculate_efficient_frontier(mean_returns, Tail(target_returns),
                                                  Tail(solved))
         IN  [raised |-> "none",
              results |-> (IF result.raised = "none" THEN <<result>> ELSE <<>>)
                          \o rest.results]

MeanReturns == [1..MaxAssets -> {R(1, 10), R(3, 10)}]
TargetReturns == {R(1, 10), R(2, 10), R(5, 10)}
TargetSequences == UNION {[1..n -> TargetReturns] : n \in 0..MaxTargets}

\* what minimize may return for each target of a batch
RECURSIVE SolvedFor(_, _)
SolvedFor(m, t) ==
    IF t = <<>> THEN {<<>>}
    ELSE {<<r>> \o q : r \in minimize(weight_bounds, m, TRUE, Head(t)),
                       q \in SolvedFor(m, Tail(t))}

OptimizerCalls ==
    UNION {UNION {{[op |-> "calculate_efficient_frontier", done |-> FALSE,
                    mean_returns |-> m, target_returns |-> t, solved |-> q] :
                      q \in SolvedFor(m, t)} :
                  t \in TargetSequences} :
           m \in MeanReturns}
    \cup
    UNION {{[op |-> "maximize_sharpe_ratio", done |-> FALSE, mean_returns |-> m,
             solved |-> r] : r \in minimize(weight_bounds, m, FALSE, Zero)} :
           m \in MeanReturns}

\* a pending call of the optimizer
InitOptimizer ==
    /\ call \in OptimizerCalls
    /\ active_positions = <<>>
    /\ trade = [status |-> "none"]
    /\ analysis = [phase |-> "idle"]
    /\ base_signal = [raised |-> "idle"]
    /\ cycle = [pc |-> "idle"]
    /\ twap = [pc |-> "idle"]
    /\ dune = [pc |-> "idle"]
    /\ client = [pc |-> "idle"]

CalculateEfficientFrontier ==
    /\ call.op = "calculate_efficient_frontier" /\ ~call.done
    /\ call' = [done |-> TRUE,
                result |-> calculate_efficient_frontier(call.mean_returns,
                               call.target_returns, call.solved)]
               @@ call
    /\ UNCHANGED <<tradeVars, signalVars, cycleVars, twapVars, duneVars>>

MaximizeSharpeRatio ==
    /\ call.op = "maximize_sharpe_ratio" /\ ~call.done
    /\ call' = [done |-> TRUE,
                result |-> maximize_sharpe_ratio(call.mean_returns, call.solved)]
               @@ call
    /\ UNCHANGED <<tradeVars, signalVars, cycleVars, twapVars, duneVars>>

NextOptimizer == CalculateEfficientFrontier \/ MaximizeSharpeRatio

\* The frontier batch and the maximum-Sharpe portfolio on their own
SpecOptimizer == InitOptimizer /\ [][NextOptimizer]_vars

\* ------------------------------------- TWAPStrategy: repeated and racing calls

\* a loop that starts over at the first pending slice after every placement
next_pending_restart(schedule, from) ==
    IF \E k \in DOMAIN schedule : schedule[k].status = "PENDING"
    THEN CHOOSE k \in DOMAIN schedule :
            /\ schedule[k].status = "PENDING"
            /\ \A j \in 1..(k - 1) : schedule[j].status # "PENDING"
    ELSE 0

\* for order in schedule: if order['status'] == 'PENDING': the first slice at
\* or after position from for which the loop places an order; 0 when the loop
\* runs out
next_pending(schedule, from) ==
    IF \E k \in from..Len(schedule) : schedule[k].status = "PENDING"
    THEN CHOOSE k \in from..Len(schedule) :
            /\ schedule[k].status = "PENDING"
            /\ \A j \in from..(k - 1) : schedule[j].status # "PENDING"
    ELSE 0

\* a loop that never records a placement
order_placed_ignored(schedule, k, success) == schedule

\* if result['success']: order['status'] = 'EXECUTED'
order_placed(schedule, k, success) ==
    IF success THEN [schedule EXCEPT ![k].status = "EXECUTED"] ELSE schedule

\* the symbol that has a schedule, and the amount it was created for
ScheduledSymbol == "BTC/USDT"
ScheduledAmounts == {Int2R(100)}

\* a strategy on which create_execution_schedule has run once, for
\* ScheduledSymbol, and execute_twap_order not yet
InitTwapSerial ==
    /\ call = [op |-> "none", done |-> TRUE]
    /\ active_positions = <<>>
    /\ trade = [status |-> "none"]
    /\ analysis = [phase |-> "idle"]
    /\ base_signal = [raised |-> "idle"]
    /\ cycle = [pc |-> "idle"]
    /\ \E total_amount \in ScheduledAmounts :
         twap = [pc |-> "ready",
                 execution_schedules |->
                     SetItem(<<>>, ScheduledSymbol, twap_slices(total_amount, 60)),
                 total_amount |-> total_amount, symbol |-> "", k |-> 0,
                 returned |-> "none", event |-> [op |-> "create_execution_schedule"]]
    /\ dune = [pc |-> "idle"]
    /\ client = [pc |-> "idle"]

\* execute_twap_order(symbol), called while no other call is running, up to its
\* first await: False without a schedule, True when no slice is pending, else
\* place_limit_order is called for the first pending slice
ExecuteTwapOrderFor(symbol) ==
    /\ twap.pc = "ready"
    /\ LET event == [op |-> "execute_twap_order", symbol |-> symbol]
       IN  IF symbol \notin DOMAIN twap.execution_schedules
           THEN twap' = [twap EXCEPT !.symbol = symbol, !.returned = "False",
                                     !.event = event]
           ELSE LET k == next_pending(twap.execution_schedules[symbol], 1)
                IN  twap' = [twap EXCEPT
                        !.symbol = symbol, !.k = k, !.event = event,
                        !.pc = IF k = 0 THEN "ready" ELSE "awaiting",
                        !.returned = IF k = 0 THEN "True" ELSE "none"]
    /\ UNCHANGED <<riskVars, tradeVars, signalVars, cycleVars, duneVars>>

SerialExecuteTwapOrder == \E symbol \in TwapSymbols : ExecuteTwapOrderFor(symbol)

\* place_limit_order returns to the call: the status is set, the loop goes on
\* to the next pending slice and places its order, or the call returns True
PlaceLimitOrderReturns(success) ==
    /\ twap.pc = "awaiting"
    /\ LET schedule == order_placed(twap.execution_schedules[twap.symbol],
                                    twap.k, success)
           k == next_pending(schedule, twap.k + 1)
       IN  twap' = [twap EXCEPT
               !.execution_schedules[twap.symbol] = schedule,
               !.k = k,
               !.event = [op |-> "place_limit_order", interval |-> twap.k,
                          success |-> success],
               !.pc = IF k = 0 THEN "ready" ELSE "awaiting",
               !.returned = IF k = 0 THEN "True" ELSE "none"]
    /\ UNCHANGED <<riskVars, tradeVars, signalVars, cycleVars, duneVars>>

SerialPlaceLimitOrder == \E success \in BOOLEAN : PlaceLimitOrderReturns(success)

NextTwapSerial == SerialExecuteTwapOrder \/ SerialPlaceLimitOrder

\* execute_twap_order called again and again, one call at a time
SpecTwapSerial == InitTwapSerial /\ [][NextTwapSerial]_vars

\* the same, where the calls for the scheduled symbol keep coming, every
\* placement returns, and placements keep succeeding
SpecTwapFair ==
    /\ InitTwapSerial
    /\ [][NextTwapSerial]_vars
    /\ WF_vars(ExecuteTwapOrderFor(ScheduledSymbol))
    /\ WF_vars(SerialPlaceLimitOrder)
    /\ SF_vars(PlaceLimitOrderReturns(TRUE))

\* two calls of execute_twap_order for the scheduled symbol on one event loop
Invocations == {1, 2}

InitTwapRace ==
    /\ call = [op |-> "none", done |-> TRUE]
    /\ active_positions = <<>>
    /\ trade = [status |-> "none"]
    /\ analysis = [phase |-> "idle"]
    /\ base_signal = [raised |-> "idle"]
    /\ cycle = [pc |-> "idle"]
    /\ \E total_amount \in ScheduledAmounts :
         twap = [pc |-> "race",
                 execution_schedules |->
                     SetItem(<<>>, ScheduledSymbol, twap_slices(total_amount, 60)),
                 total_amount |-> total_amount,
                 runs |-> [r \in Invocations |-> [pc |-> "idle", k |-> 0]],
                 event |-> [op |-> "create_execution_schedule"]]
    /\ dune = [pc |-> "idle"]
    /\ client = [pc |-> "idle"]

\* one of the calls starts and runs to its first await
RaceExecuteTwapOrder ==
    /\ twap.pc = "race"
    /\ \E r \in Invocations :
         /\ twap.runs[r].pc = "idle"
         /\ LET k == next_pending(twap.execution_schedules[ScheduledSymbol], 1)
            IN  twap' = [twap EXCEPT
                    !.runs[r] = [pc |-> IF k = 0 THEN "done" ELSE "awaiting", k |-> k],
                    !.event = [op |-> "execute_twap_order", run |-> r]]
    /\ UNCHANGED <<riskVars, tradeVars, signalVars, cycleVars, duneVars>>

\* place_limit_order returns to one of the calls, which runs to its next await
\* or to its end; the event keeps the status the slice had on that return
RacePlaceLimitOrder ==
    /\ twap.pc = "race"
    /\ \E r \in Invocations, success \in BOOLEAN :
         /\ twap.runs[r].pc = "awaiting"
         /\ LET before == twap.execution_schedules[ScheduledSymbol]
                schedule == order_placed(before, twap.runs[r].k, success)
                k == next_pending(schedule, twap.runs[r].k + 1)
            IN  twap' = [twap EXCEPT
                    !.execution_schedules[ScheduledSymbol] = schedule,
                    !.runs[r] = [pc |-> IF k = 0 THEN "done" ELSE "awaiting", k |-> k],
                    !.event = [op |-> "place_limit_order", run |-> r,
                               interval |-> twap.runs[r].k, success |-> success,
                               status |-> before[twap.runs[r].k].status]]
    /\ UNCHANGED <<riskVars, tradeVars, signalVars, cycleVars, duneVars>>

NextTwapRace == RaceExecuteTwapOrder \/ RacePlaceLimitOrder

\* Two calls for one symbol that interleave at their awaits
SpecTwapRace == InitTwapRace /\ [][NextTwapRace]_vars

\* ------------------------------------------------------------------ DuneAPI

\* latest reading of the clock and most requests of a run of the model
MaxClock == 14
MaxRequests == 3

\* REQUESTS_PER_MIN = 40; REQUEST_INTERVAL = 60 / REQUESTS_PER_MIN (seconds)
REQUESTS_PER_MIN == 40
REQUEST_INTERVAL == Div(Int2R(60), Int2R(REQUESTS_PER_MIN))

\* _wait: how long the caller sleeps at the time now
_wait(now, last_request_time) ==
    LET elapsed == Sub(now, last_request_time)
    IN  IF Lt(elapsed, REQUEST_INTERVAL) THEN Sub(REQUEST_INTERVAL, elapsed) ELSE Zero

\* last_request_time once the request has come back at the time returned_at:
\* requests.post/get raising leaves the method before line 57 (67, 77)
last_request_time_after(d, returned_at, outcome) ==
    IF outcome = "raised" THEN d.last_request_time ELSE returned_at

\* what the request does: it raises, or it answers with a status
Outcomes == {"raised", "200", "500"}

\* how long the answer takes
Latencies == {Zero, R(1, 2)}

\* One call of create_query, run_query or get_query_results: _wait, the request,
\* the time stamp, and the return value or the exception.
request(d, op, latency, outcome) ==
    LET sent_at == Add(d.now, _wait(d.now, d.last_request_time))
        returned_at == Add(sent_at, latency)
    IN  [d EXCEPT !.now = returned_at,
                  !.last_request_time = last_request_time_after(d, returned_at, outcome),
                  !.sent = Append(@, [op |-> op, at |-> sent_at, outcome |-> outcome]),
                  !.returned = IF outcome = "200" THEN "json" ELSE "Exception"]

\* DuneAPI.__init__ at some time of the clock: last_request_time = 0
InitDune ==
    /\ call = [op |-> "none", done |-> TRUE]
    /\ active_positions = <<>>
    /\ trade = [status |-> "none"]
    /\ analysis = [phase |-> "idle"]
    /\ base_signal = [raised |-> "idle"]
    /\ cycle = [pc |-> "idle"]
    /\ twap = [pc |-> "idle"]
    /\ dune = [pc |-> "ready", now |-> Int2R(MaxClock - 4), last_request_time |-> Zero,
               sent |-> <<>>, returned |-> "none"]
    /\ client = [pc |-> "idle"]

CanRequest == dune.pc = "ready" /\ Len(dune.sent) < MaxRequests

CreateQuery ==
    /\ CanRequest
    /\ \E latency \in Latencies, outcome \in Outcomes :
         dune' = request(dune, "create_query", latency, outcome)
    /\ UNCHANGED <<riskVars, tradeVars, signalVars, cycleVars, twapVars, client>>

RunQuery ==
    /\ CanRequest
    /\ \E latency \in Latencies, outcome \in Outcomes :
         dune' = request(dune, "run_query", latency, outcome)
    /\ UNCHANGED <<riskVars, tradeVars, signalVars, cycleVars, twapVars, client>>

GetQueryResults ==
    /\ CanRequest
    /\ \E latency \in Latencies, outcome \in Outcomes :
         dune' = request(dune, "get_query_results", latency, outcome)
    /\ UNCHANGED <<riskVars, tradeVars, signalVars, cycleVars, twapVars, client>>

\* time passes between two calls
DuneTick ==
    /\ dune.pc = "ready"
    /\ Lt(dune.now, Int2R(MaxClock))
    /\ dune' = [dune EXCEPT !.now = Add(@, R(1, 2))]
    /\ UNCHANGED <<riskVars, tradeVars, signalVars, cycleVars, twapVars, client>>

NextDune == CreateQuery \/ RunQuery \/ GetQueryResults \/ DuneTick

\* The calls of one DuneAPI client, one after the other
SpecDune == InitDune /\ [][NextDune]_vars

\* ------------------------------------------------------------ DuneAPIClient

\* latest reading of the clock of the model, in seconds
MaxClientClock == 120

\* the coroutines that call execute_query on one client
Coroutines == {1, 2, 3}

\* self.request_times = [t for t in self.request_times if now - t < 60]
recent(request_times, now) == SelectSeq(request_times, LAMBDA t : now - t < 60)

\* _rate_limit after its sleep, and _start_execution: the request time is
\* appended without a second look at the window
_rate_limit_woken(c, me) ==
    [c EXCEPT !.request_times = Append(@, c.now),
              !.started = Append(@, c.now),
              !.co[me].pc = "executing"]

\* _rate_limit up to its await, or through when the window has room, and then
\* _start_execution
_rate_limit(c, me) ==
    LET request_times == recent(c.request_times, c.now)
    IN  IF Len(request_times) >= c.max_requests_per_minute
        THEN [c EXCEPT !.request_times = request_times,
                       !.co[me].pc = "sleeping",
                       !.co[me].wake = c.now + (60 - (c.now - request_times[1]))]
        ELSE [c EXCEPT !.request_times = Append(request_times, c.now),
                       !.started = Append(@, c.now),
                       !.co[me].pc = "executing"]

\* _is_cached: the key is in the cache and its response is younger than
\* query.cache_duration
_is_cached(c, cache_duration) ==
    c.cache.cached /\ c.now - c.cache.timestamp < cache_duration

CacheDurations == {40, 300}

\* DuneAPIClient.__init__ with max_requests_per_minute 1 or 2
InitClient ==
    /\ call = [op |-> "none", done |-> TRUE]
    /\ active_positions = <<>>
    /\ trade = [status |-> "none"]
    /\ analysis = [phase |-> "idle"]
    /\ base_signal = [raised |-> "idle"]
    /\ cycle = [pc |-> "idle"]
    /\ twap = [pc |-> "idle"]
    /\ dune = [pc |-> "idle"]
    /\ \E max_requests_per_minute \in {1, 2} :
         client = [pc |-> "ready", now |-> 0,
                   max_requests_per_minute |-> max_requests_per_minute,
                   request_times |-> <<>>,
                   cache |-> [cached |-> FALSE, timestamp |-> 0],
                   started |-> <<>>,
                   co |-> [me \in Coroutines |->
                             [pc |-> "idle", wake |-> 0, use_cache |-> FALSE,
                              returned |-> "none"]],
                   event |-> "__init__"]

\* execute_query(query, use_cache) up to its first await: a cache hit returns
\* the cached response, otherwise _rate_limit runs
ExecuteQuery ==
    /\ client.pc = "ready"
    /\ \E me \in Coroutines, use_cache \in BOOLEAN, cache_duration \in CacheDurations :
         /\ client.co[me].pc = "idle"
         /\ IF use_cache /\ _is_cached(client, cache_duration)
            THEN client' = [client EXCEPT !.co[me].pc = "done",
                                         !.co[me].use_cache = use_cache,
                                         !.co[me].returned = "cached",
                                         !.event = "cache hit"]
            ELSE client' = _rate_limit([client EXCEPT !.co[me].use_cache = use_cache,
                                                     !.event = "execute_query"], me)
    /\ UNCHANGED <<riskVars, tradeVars, signalVars, cycleVars, twapVars, dune>>

\* asyncio.sleep(sleep_time) is over for a coroutine
WakeUp ==
    /\ client.pc = "ready"
    /\ \E me \in Coroutines :
         /\ client.co[me].pc = "sleeping"
         /\ client.now >= client.co[me].wake
         /\ client' = _rate_limit_woken([client EXCEPT !.event = "woken"], me)
    /\ UNCHANGED <<riskVars, tradeVars, signalVars, cycleVars, twapVars, dune>>

\* _start_execution or _wait_for_completion raises, or the results arrive and
\* are cached when use_cache is set
ExecutionReturns ==
    /\ client.pc = "ready"
    /\ \E me \in Coroutines, ok \in BOOLEAN :
         /\ client.co[me].pc = "executing"
         /\ client' = [client EXCEPT
                !.co[me].pc = "done",
                !.co[me].returned = IF ok THEN "response" ELSE "Exception",
                !.cache = IF ok /\ client.co[me].use_cache
                          THEN [cached |-> TRUE, timestamp |-> client.now] ELSE @,
                !.event = "returned"]
    /\ UNCHANGED <<riskVars, tradeVars, signalVars, cycleVars, twapVars, dune>>

\* twenty seconds pass
ClientTick ==
    /\ client.pc = "ready"
    /\ client.now + 20 <= MaxClientClock
    /\ client' = [client EXCEPT !.now = @ + 20, !.event = "tick"]
    /\ UNCHANGED <<riskVars, tradeVars, signalVars, cycleVars, twapVars, dune>>

NextClient == ExecuteQuery \/ WakeUp \/ ExecutionReturns \/ ClientTick

\* Coroutines calling execute_query on one DuneAPIClient
SpecClient == InitClient /\ [][NextClient]_vars

\* --------------------------------------------------- claims: position sizing

Sized == call.op = "calculate_position_size" /\ call.done /\ call.result.raised = "none"

\* C1 as stated: for every call of calculate_position_size that returns, with any
\* balance, entry price, stop, volatility adjustment and regime, position_size_usd
\* is >= 0 and <= account_balance * max_portfolio_risk.
C1_AnyInput ==
    Sized =>
        /\ Ge(call.result.position_size_usd, Zero)
        /\ Le(call.result.position_size_usd, Mul(call.account_balance, R(30, 100)))

\* C1 amended: for every call of calculate_position_size with account_balance >= 0,
\* entry_price > 0 and volatility_adjustment > 0 that returns, position_size_usd
\* is >= 0 and <= account_balance * max_portfolio_risk.
C1_SizeWithinCap ==
    (/\ Sized
     /\ Ge(call.account_balance, Zero)
     /\ Gt(call.entry_price, Zero)
     /\ Gt(call.volatility_adjustment, Zero)) =>
        /\ Ge(call.result.position_size_usd, Zero)
        /\ Le(call.result.position_size_usd, Mul(call.account_balance, R(30, 100)))

\* a sizing of a valid trade that the cap cuts: raw size 500 on a cap of 300
C1_Witness ==
    /\ Sized
    /\ call.account_balance = Int2R(1000)
    /\ call.entry_price = Int2R(100) /\ call.stop_loss = Int2R(96)
    /\ call.volatility_adjustment = R(5, 10)
    /\ Lower(call.market_regime) = "normal"
    /\ call.result.position_size_usd = Int2R(300)

\* The claim's regime table, on the lower-cased regime name
C2_RegimeTable(regime) ==
    CASE Lower(regime) = "normal" -> R(10, 10)
      [] Lower(regime) = "volatile" -> R(7, 10)
      [] Lower(regime) = "extreme" -> R(5, 10)

\* C2: a call of calculate_position_size that returns, for one of the regimes
\* normal, volatile, extreme and a finite non-zero stop distance, reports
\* stop_pct = |entry - stop| / entry, risk_amount = (balance * 1% / adjustment)
\* * regime multiplier (1.0, 0.7, 0.5) and position_size_usd = min(risk_amount /
\* stop_pct, balance * 30%); balance 1000, entry 100, stop 96, adjustment 1.0,
\* regime normal give 250.
C2_SizingFormula ==
    (/\ Sized
     /\ Lower(call.market_regime) \in {"normal", "volatile", "extreme"}
     /\ ~IsZero(call.entry_price) /\ call.entry_price # call.stop_loss) =>
        LET b == call.account_balance
            dist == Abs(Sub(call.entry_price, call.stop_loss))
            risk == Div(Mul(Mul(b, R(1, 100)), C2_RegimeTable(call.market_regime)),
                        call.volatility_adjustment)
            raw == Div(Mul(risk, call.entry_price), dist)
            cap == Mul(b, R(30, 100))
        IN  /\ Mul(call.result.stop_loss_pct, call.entry_price) = dist
            /\ call.result.regime_multiplier = C2_RegimeTable(call.market_regime)
            /\ call.result.risk_amount = risk
            /\ call.result.position_size_usd = (IF Lt(cap, raw) THEN cap ELSE raw)
            /\ (/\ b = Int2R(1000) /\ call.entry_price = Int2R(100)
                /\ call.stop_loss = Int2R(96)
                /\ call.volatility_adjustment = Int2R(1)
                /\ Lower(call.market_regime) = "normal")
               => /\ call.result.risk_amount = Int2R(10)
                  /\ call.result.stop_loss_pct = R(4, 100)
                  /\ call.result.position_size_usd = Int2R(250)

\* the claim's example in the volatile regime: risk 7, size 175
C2_Witness ==
    /\ Sized
    /\ call.account_balance = Int2R(1000)
    /\ call.entry_price = Int2R(100) /\ call.stop_loss = Int2R(96)
    /\ call.volatility_adjustment = Int2R(1)
    /\ call.market_regime = "volatile"
    /\ call.result.position_size_usd = Int2R(175)

\* ------------------------------------------ claims: zero stop distance

\* C3: when entry_price == stop_loss, sizing ends in the InvalidStopDistance
\* error instead of a division by the zero distance, and the trade is rejected:
\* execute_risk_adjusted_trade appends no order and does not report 'executed'.
C3_ZeroStopRejected ==
    (trade.status # "none" /\ trade.signal.entry_price = trade.signal.stop_loss) =>
        /\ trade.status # "executed"
        /\ trade.error = "InvalidStopDistance"

\* ------------------------------------------------------------ claims: Kelly

KellyCalled == call.op = "calculate_kelly_criterion" /\ call.done

\* C4: calculate_kelly_criterion returns, for every win_rate in [0,1] and any
\* avg_win and avg_loss, a value in [0, 0.25]: 0 when avg_loss <= 0 and otherwise
\* clamp(0.5 * (b*p - q)/b, 0, 0.25) with b = avg_win / avg_loss.
C4_KellyInRange ==
    KellyCalled =>
        /\ call.result.raised = "none"
        /\ Ge(call.result.value, Zero) /\ Le(call.result.value, R(25, 100))
        /\ Le(call.avg_loss, Zero) => call.result.value = Zero
        /\ (Gt(call.avg_loss, Zero) /\ ~IsZero(call.avg_win)) =>
              LET p == call.win_rate
                  q == Sub(Int2R(1), p)
                  \* (b*p - q)/b = p - q * avg_loss / avg_win
                  f == Sub(p, Div(Mul(q, call.avg_loss), call.avg_win))
                  half == Mul(f, R(1, 2))
              IN  call.result.value =
                    (IF Lt(half, Zero) THEN Zero
                     ELSE IF Gt(half, R(25, 100)) THEN R(25, 100) ELSE half)

\* ---------------------------------------------------- claims: validate_trade

Validated == call.op = "validate_trade" /\ call.done

\* C5: validate_trade reports valid exactly when risk = |entry - stop_loss| > 0
\* and |take_profit - entry| / risk >= 2.0; entry 100, take_profit 112, stop_loss
\* 96 give ratio 3.0 and valid.
C5_ValidIffRatio ==
    Validated =>
        LET risk == Abs(Sub(call.entry_price, call.stop_loss))
            reward == Abs(Sub(call.take_profit, call.entry_price))
        IN  /\ call.result.valid <=> (Gt(risk, Zero) /\ Ge(reward, Mul(Int2R(2), risk)))
            /\ (/\ call.entry_price = Int2R(100) /\ call.take_profit = Int2R(112)
                /\ call.stop_loss = Int2R(96))
               => call.result.risk_reward_ratio = Int2R(3) /\ call.result.valid

\* a trade validated exactly at the minimum ratio: entry 100, target 108, stop 96
C5_Witness ==
    /\ Validated
    /\ call.entry_price = Int2R(100) /\ call.take_profit = Int2R(108)
    /\ call.stop_loss = Int2R(96)
    /\ call.result.risk_reward_ratio = Int2R(2) /\ call.result.valid

C6_Case ==
    /\ Validated
    /\ call.entry_price = Int2R(100) /\ call.take_profit = Int2R(104)
    /\ call.stop_loss = Int2R(96)

\* C6 as stated: validate_trade(100, 104, 96) reports ratio 0.5 and valid = False.
C6_RatioHalf ==
    C6_Case => call.result.risk_reward_ratio = R(1, 2) /\ ~call.result.valid

\* C6 amended: validate_trade(100, 104, 96) reports ratio 1.0 (reward 4 over
\* risk 4) and valid = False.
C6_RatioOne ==
    C6_Case =>
        /\ call.result.has_ratio
        /\ call.result.risk_reward_ratio = Int2R(1)
        /\ ~call.result.valid

\* validate_trade(100, 104, 96) has returned
C6_Witness == C6_Case /\ call.result.reward_amount = Int2R(4)

\* ------------------------------------------------ claims: score, confidence

Analysed == analysis.phase \in {"analysed", "signalled"}

\* C7: every per-symbol analysis has confidence in [0, 1] and enhanced_score in
\* [0, 100], whatever tiers are present and with or without AI intelligence.
C7_ScoreAndConfidenceInRange ==
    Analysed =>
        /\ Ge(analysis.confidence, Zero) /\ Le(analysis.confidence, Int2R(1))
        /\ Ge(analysis.enhanced_score, Zero) /\ Le(analysis.enhanced_score, Int2R(100))

\* four tiers and AI intelligence: 4/4 + 0.1 is cut to 1.0
C7_Witness ==
    /\ Analysed
    /\ \A i \in 1..4 : IsTrue(Tier(analysis, i))
    /\ IsTrue(analysis.ai_intelligence)
    /\ analysis.confidence = Int2R(1)

\* the score a tier contributes, and whether it contributes one
C8_TierScore(i) == IF HasScore(Tier(analysis, i)) THEN Tier(analysis, i).d.score ELSE Zero
C8_Scored == {i \in 1..4 : HasScore(Tier(analysis, i))}

\* the pseudo-score of the sentiment; a label that is missing or not one of the
\* three is read as Neutral
C8_Pseudo ==
    LET d == analysis.ai_intelligence.d
    IN  IF "sentiment" \in DOMAIN d /\ d.sentiment = "Bullish" THEN Int2R(75)
        ELSE IF "sentiment" \in DOMAIN d /\ d.sentiment = "Bearish" THEN Int2R(25)
        ELSE Int2R(50)

C9_ConfidenceCountsScoredTiers ==
    Analysed =>
        LET present == Cardinality({i \in 1..4 : HasScore(Tier(analysis, i))})
            raw == Add(R(present, 4),
                       IF IsTrue(analysis.ai_intelligence) THEN R(1, 10) ELSE Zero)
        IN  analysis.confidence = (IF Lt(Int2R(1), raw) THEN Int2R(1) ELSE raw)

\* ------------------------------------------------------ claims: base signal

C10_Action(score, confidence) ==
    IF Ge(score, Int2R(75)) /\ Ge(confidence, R(8, 10)) THEN "STRONG_BUY"
    ELSE IF Ge(score, Int2R(65)) /\ Ge(confidence, R(7, 10)) THEN "BUY"
    ELSE IF Le(score, Int2R(25)) /\ Ge(confidence, R(8, 10)) THEN "STRONG_SELL"
    ELSE IF Le(score, Int2R(35)) /\ Ge(confidence, R(7, 10)) THEN "SELL"
    ELSE "HOLD"

\* C10: _generate_base_signal yields, for every enhanced_score in [0, 100] and
\* confidence in [0, 1], the action of the threshold table (STRONG_BUY, BUY,
\* STRONG_SELL, SELL, otherwise HOLD): a total function of the pair.
C10_ActionOfPair ==
    analysis.phase = "signalled" =>
        /\ base_signal.raised = "none"
        /\ base_signal.action = C10_Action(analysis.enhanced_score, analysis.confidence)

\* ------------------------------------------------------ claims: the cycle

Range(q) == {q[k] : k \in DOMAIN q}

\* the cycle is over: both functions have returned
CycleDone == cycle.pc = "done"

\* the items of the analysis the cycle produced
Items == IF cycle.last_analysis = None THEN {} ELSE Range(cycle.last_analysis.d)

\* C11: generate_precision_signals never emits a signal whose action is HOLD:
\* every element of the list it builds and of active_signals has an action in
\* {STRONG_BUY, BUY, STRONG_SELL, SELL}, and after the cycle a symbol whose score
\* lies in the neutral band (above 35, below 65) has no element.
C11_NoHoldSignal ==
    cycle.pc \in {"signals", "done"} =>
        /\ \A sig \in Range(cycle.signals) \cup Range(cycle.active_signals) :
             sig.action \in {"STRONG_BUY", "BUY", "STRONG_SELL", "SELL"}
        /\ CycleDone =>
             \A a \in Items :
                Gt(a.enhanced_score, Int2R(35)) /\ Lt(a.enhanced_score, Int2R(65))
                => \A sig \in Range(cycle.active_signals) : sig.symbol # a.symbol

\* one symbol scores 50 with full confidence and has no signal, the other has one
C11_Witness ==
    /\ CycleDone
    /\ \E a \in Items :
         /\ a.enhanced_score = Int2R(50) /\ a.confidence = Int2R(1)
         /\ \A sig \in Range(cycle.active_signals) : sig.symbol # a.symbol
    /\ Len(cycle.active_signals) = 1

FailedTiers ==
    {x \in Range(cycle.replies) \X Range(cycle.analysis_results) \X (1..4) :
        /\ x[1].symbol = x[2].symbol
        /\ x[1].price_data # None
        /\ ~x[1].o[x[3]].ok}

\* the analysis had the failed tier succeeded with the score sc
HadSucceeded(a, i, sc) ==
    LET t == IF i = 1 THEN Dict([current_price |-> Int2R(100), score |-> sc])
             ELSE Dict([score |-> sc])
    IN  CASE i = 1 -> [a EXCEPT !.tier1 = t] [] i = 2 -> [a EXCEPT !.tier2 = t]
          [] i = 3 -> [a EXCEPT !.tier3 = t] [] i = 4 -> [a EXCEPT !.tier4 = t]

\* the failed tier is absent: no score of it is averaged, the tiers that did
\* not fail are in the analysis with their scores, and every symbol with price
\* data is analysed
C13_Absent(r, a, i) ==
    /\ Tier(a, i) = None
    /\ LET scored == {j \in 1..4 : r.o[j].ok}
           ai == IsTrue(a.ai_intelligence)
           n == Cardinality(scored) + (IF ai THEN 1 ELSE 0)
           total == NpSum([j \in 1..4 |-> IF r.o[j].ok THEN r.o[j].score ELSE Zero]
                          \o AiScoreList(a))
       IN  /\ i \notin scored
           /\ \A j \in scored : HasScore(Tier(a, j)) /\ Tier(a, j).d.score = r.o[j].score
           /\ n > 0 => Mul(a.enhanced_score, Int2R(n)) = total
    /\ \A r2 \in Range(cycle.replies) :
         r2.price_data # None => \E a2 \in Range(cycle.analysis_results) : a2.symbol = r2.symbol

Created == twap.pc = "ready" /\ twap.created # <<>>

\* C14: create_execution_schedule returns and stores exactly intervals (12)
\* slices, numbered 1..intervals in order, each of amount total_amount/intervals
\* and status PENDING; the amounts sum to total_amount.
C14_EqualPendingSlices ==
    Created =>
        LET c == twap.created
            schedule == c.schedule
        IN  /\ Len(schedule) = 12
            /\ twap.execution_schedules[c.symbol] = schedule
            /\ \A i \in 1..Len(schedule) :
                 /\ schedule[i].interval = i
                 /\ Mul(schedule[i].amount, Int2R(12)) = c.total_amount
                 /\ schedule[i].status = "PENDING"
            /\ SumSeq([i \in 1..Len(schedule) |-> schedule[i].amount]) = c.total_amount

\* 1200 in twelve slices of 100
C14_Witness ==
    /\ Created
    /\ twap.created.total_amount = Int2R(1200)
    /\ twap.created.schedule[12].amount = Int2R(100)
    /\ twap.execution_schedules[twap.created.symbol][1].status = "PENDING"

\* C15: for every duration_minutes, slice i (0-based) is timestamped
\* i * (duration_minutes / intervals) minutes after now, so the schedule spans
\* the requested duration (120 minutes: slices 10 minutes apart).
C15_TimestampsSpanDuration ==
    Created =>
        LET c == twap.created
            step == Div(Int2R(c.duration_minutes), Int2R(Len(c.schedule)))
        IN  \A i \in 1..Len(c.schedule) :
              c.schedule[i].timestamp = Mul(Int2R(i - 1), step)

\* C16: in execute_twap_order a slice whose placement succeeds becomes EXECUTED
\* and a slice whose placement fails becomes FAILED; a slice not yet reached
\* stays PENDING.
C16_FailedPlacementMarked ==
    twap.pc \in {"executing", "done"} /\ twap.returned # "False" =>
        LET schedule == twap.execution_schedules[twap.symbol]
        IN  \A k \in 1..Len(schedule) :
              schedule[k].status =
                  (IF k > Len(twap.placed) THEN "PENDING"
                   ELSE IF twap.placed[k] THEN "EXECUTED" ELSE "FAILED")

\* ------------------------------------------------- claims: precision entries

EntriesCalled == call.op = "_calculate_precision_entries" /\ call.done

\* C17: _calculate_precision_entries returns primary = base_price with
\* secondary, tertiary = 0.995, 0.990 times base_price for BUY/STRONG_BUY and
\* 1.005, 1.010 times base_price for SELL/STRONG_SELL, and only primary for
\* HOLD; for base_price > 0 the levels strictly decrease for longs and strictly
\* increase for shorts.
C17_PrecisionLadder ==
    EntriesCalled =>
        LET b == call.base_price
            e == call.result
            long == call.action \in {"BUY", "STRONG_BUY"}
            short == call.action \in {"SELL", "STRONG_SELL"}
        IN  /\ e.primary = b
            /\ long => /\ DOMAIN e = {"primary", "secondary", "tertiary"}
                       /\ Mul(e.secondary, Int2R(1000)) = Mul(b, Int2R(995))
                       /\ Mul(e.tertiary, Int2R(100)) = Mul(b, Int2R(99))
                       /\ Gt(b, Zero) => Gt(e.primary, e.secondary)
                                         /\ Gt(e.secondary, e.tertiary)
            /\ short => /\ DOMAIN e = {"primary", "secondary", "tertiary"}
                        /\ Mul(e.secondary, Int2R(1000)) = Mul(b, Int2R(1005))
                        /\ Mul(e.tertiary, Int2R(100)) = Mul(b, Int2R(101))
                        /\ Gt(b, Zero) => Lt(e.primary, e.secondary)
                                          /\ Lt(e.secondary, e.tertiary)
            /\ ~long /\ ~short => DOMAIN e = {"primary"}

\* a short ladder from 100: 100, 100.5, 101
C17_Witness ==
    /\ EntriesCalled
    /\ call.action = "STRONG_SELL" /\ call.base_price = Int2R(100)
    /\ call.result.secondary = R(1005, 10) /\ call.result.tertiary = Int2R(101)

\* ---------------------------------------------- claims: volatility multiplier

\* the multiplier of the band a volatility figure lies in
C18_Band(v) ==
    IF Ge(v, R(20, 100)) THEN R(5, 10)
    ELSE IF Ge(v, R(10, 100)) THEN R(8, 10)
    ELSE IF Ge(v, R(5, 100)) THEN Int2R(1)
    ELSE R(12, 10)

\* C18: the volatility multiplier is a step function of the annualized
\* volatility (any number: nan is not a volatility): < 0.05 -> 1.2;
\* [0.05, 0.10) -> 1.0; [0.10, 0.20) -> 0.8; >= 0.20 -> 0.5; it never increases
\* with the volatility and a boundary value belongs to the higher band.
C18_StepFunction ==
    call.op = "_get_adjustment_factor" /\ call.done /\ ~IsNaN(call.volatility) =>
        /\ call.result = C18_Band(call.volatility)
        /\ \A v \in Volatilities :
             Le(call.volatility, v) => Le(_get_adjustment_factor(v), call.result)

\* the boundary 0.05 gets the multiplier of [0.05, 0.10)
C18_Witness ==
    /\ call.op = "_get_adjustment_factor" /\ call.done
    /\ call.volatility = R(5, 100)
    /\ call.result = Int2R(1)

\* C19: with fewer than window + 1 = 15 price observations (here at least one)
\* the volatility estimator fails with InsufficientHistory and yields neither a
\* volatility nor a multiplier (the caller then sizes with the neutral
\* multiplier 1.0, never with 0.5).
C19_InsufficientHistoryFails ==
    /\ call.op = "volatility_position_size" /\ call.done
    /\ call.data.kind = "frame" /\ call.data.closes \in 1..period
    => /\ call.result.raised = "InsufficientHistory"
       /\ call.result.adjustment_factor # R(5, 10)

\* --------------------------------------------------------- claims: rebalancing

Rebalanced == call.op = "dynamic_rebalancing" /\ call.done

\* C20: for a non-negative target vector with positive sum and a positive
\* adjustment factor, dynamic_rebalancing returns adjusted targets that sum to 1
\* and are proportional to target_weights * volatility_adjustment, and trade
\* amounts equal to adjusted_targets - current_weights component by component
\* (summing to 0 when current_weights sum to 1).
C20_Rebalancing ==
    /\ Rebalanced
    /\ \A i \in DOMAIN call.target_weights : Ge(call.target_weights[i], Zero)
    /\ Gt(NpSum(call.target_weights), Zero)
    /\ Gt(call.volatility_adjustment, Zero)
    => LET t == call.target_weights
           v == call.volatility_adjustment
           a == call.result.adjusted_targets
           d == call.result.trade_amounts
           total == Mul(NpSum(t), v)
       IN  /\ NpSum(a) = Int2R(1)
           /\ \A i \in DOMAIN t : Mul(a[i], total) = Mul(t[i], v)
           /\ DOMAIN d = DOMAIN t
           /\ \A i \in DOMAIN t : Add(d[i], call.current_weights[i]) = a[i]
           /\ NpSum(call.current_weights) = Int2R(1) => NpSum(d) = Zero

\* targets (1/4, 1/2) scaled by 1.2 against (1/2, 1/2): (1/3, 2/3), (-1/6, 1/6)
C20_Witness ==
    /\ Rebalanced
    /\ call.current_weights = <<R(1, 2), R(1, 2)>>
    /\ call.target_weights = <<R(1, 4), R(1, 2)>>
    /\ call.volatility_adjustment = R(12, 10)
    /\ call.result.adjusted_targets = <<R(1, 3), R(2, 3)>>
    /\ call.result.trade_amounts = <<R(-1, 6), R(1, 6)>>

\* ----------------------------------------------------- claims: the optimizer

FrontierDone == call.op = "calculate_efficient_frontier" /\ call.done

\* the targets of the batch whose solve succeeded, in the order given
RECURSIVE C21_Solved(_, _)
C21_Solved(t, q) ==
    IF t = <<>> THEN <<>>
    ELSE (IF Head(q).success THEN <<[target |-> Head(t), x |-> Head(q).x]>> ELSE <<>>)
         \o C21_Solved(Tail(t), Tail(q))

\* C21: calculate_efficient_frontier handles the targets in the given order
\* and skips a target the solver fails for: the result holds exactly one
\* OptimizationResult per solved target, in the order of the targets, and the
\* call does not raise because of a solver failure.
C21_FailedTargetsSkipped ==
    FrontierDone =>
        LET solved == C21_Solved(call.target_returns, call.solved)
            results == call.result.results
        IN  /\ call.result.raised = "none"
            /\ Len(results) = Len(solved)
            /\ \A k \in 1..Len(solved) :
                 /\ results[k].weights = solved[k].x
                 /\ results[k].expected_return = solved[k].target

\* the solver fails for the first of two targets and solves the second
C21_Witness ==
    /\ FrontierDone
    /\ Len(call.target_returns) = 2
    /\ ~call.solved[1].success /\ call.solved[2].success
    /\ Len(call.result.results) = 1
    /\ call.result.results[1].expected_return = call.target_returns[2]

\* the weight vectors a finished optimizer call returned
ReturnedWeights ==
    IF call.op = "calculate_efficient_frontier" /\ call.done
    THEN {call.result.results[k].weights : k \in 1..Len(call.result.results)}
    ELSE IF call.op = "maximize_sharpe_ratio" /\ call.done /\ call.result.raised = "none"
    THEN {call.result.weights}
    ELSE {}

C23_CachesReplacedWhole ==
    /\ \/ cycle.last_analysis = cycle.previous.last_analysis
       \/ /\ Len(cycle.replies) = Len(trading_pairs)
          /\ cycle.last_analysis = Dict(cycle.analysis_results)
    /\ \/ cycle.active_signals = cycle.previous.active_signals
       \/ /\ cycle.pc = "done"
          /\ cycle.active_signals = cycle.signals

\* a cycle was cancelled with the first pair analysed and the second not: the
\* caches still hold what the earlier cycle left
C23_Witness ==
    /\ cycle.pc = "idle" /\ Len(cycle.replies) = 1
    /\ Len(cycle.analysis_results) = 1
    /\ cycle.analysis_results # <<previous_analysis>>
    /\ cycle.last_analysis = Dict(<<previous_analysis>>)
    /\ cycle.active_signals = <<previous_signal>>

\* ---------------------------------------------------- claims: the Dune gate

\* C24: every request of a DuneAPI client is sent no earlier than
\* REQUEST_INTERVAL after the request before it, whether that one returned 200,
\* returned an error status or raised.
C24_MinimumInterval ==
    \A k \in 2..Len(dune.sent) :
        Ge(Sub(dune.sent[k].at, dune.sent[k - 1].at), REQUEST_INTERVAL)

\* ------------------------------------------------ claims: TWAP invocations

\* C25: no slice is placed twice: a placement that succeeds is for a slice that
\* is still PENDING when it returns, so no slice that one call has already
\* filled is filled again by a call that interleaves with it.
C25_NoSliceFilledTwice ==
    twap.event.op = "place_limit_order" /\ twap.event.success
    => twap.event.status = "PENDING"

\* the schedule of the scheduled symbol
Schedule == twap.execution_schedules[ScheduledSymbol]

AllExecuted == \A k \in DOMAIN Schedule : Schedule[k].status = "EXECUTED"

\* the amounts of the EXECUTED slices, added up
RECURSIVE ExecutedAmount(_)
ExecutedAmount(q) ==
    IF q = <<>> THEN Zero
    ELSE Add(IF Head(q).status = "EXECUTED" THEN Head(q).amount ELSE Zero,
             ExecutedAmount(Tail(q)))

\* C27: when the calls for the symbol keep coming and placements keep
\* succeeding, the schedule is eventually all EXECUTED and stays so; once it is,
\* a call places no order; and the amounts of the EXECUTED slices never add up
\* to more than total_amount.
C27_EventuallyAllExecuted ==
    /\ <>[]AllExecuted
    /\ [][AllExecuted => twap'.pc = "ready" /\ Schedule' = Schedule]_vars
    /\ [](Le(ExecutedAmount(Schedule), twap.total_amount))

\* every slice is EXECUTED and a further call has returned True at once
C27_Witness ==
    /\ AllExecuted
    /\ twap.event = [op |-> "execute_twap_order", symbol |-> ScheduledSymbol]
    /\ twap.returned = "True"
    /\ ExecutedAmount(Schedule) = twap.total_amount

\* ------------------------------------------------- claims: total exposure

\* position_size_usd summed over the active positions
RECURSIVE TotalExposure(_)
TotalExposure(q) ==
    IF q = <<>> THEN Zero
    ELSE Add(Head(q).position_size_usd, TotalExposure(Tail(q)))

\* C28: after any sequence of execute_risk_adjusted_trade calls with one
\* account_balance, the position sizes of active_positions (all of them finite)
\* add up to no more than account_balance * max_total_exposure.
C28_TotalExposureCapped ==
    /\ trade.status # "none"
    /\ \A k \in DOMAIN active_positions :
          IsFinite(active_positions[k].position_size_usd)
    => Le(TotalExposure(active_positions),
          Mul(trade.account_balance, max_total_exposure))

\* ---------------------------------------------- claims: signal risk/reward

\* C29: every signal generate_precision_signals emits has its stop and its
\* target on opposite sides of the entry, the target in the direction of the
\* action, and passes validate_trade with the minimum risk/reward ratio 2.0.
C29_SignalsPassValidation ==
    \A sig \in Range(cycle.signals) :
        /\ IF sig.action \in {"BUY", "STRONG_BUY"}
           THEN Lt(sig.stop_loss, sig.entry_price) /\ Lt(sig.entry_price, sig.take_profit)
           ELSE Lt(sig.take_profit, sig.entry_price) /\ Lt(sig.entry_price, sig.stop_loss)
        /\ validate_trade(sig.entry_price, sig.take_profit, sig.stop_loss).valid

\* ------------------------------------------- claims: the Dune client's limit

\* C30: no window of 60 seconds holds more than max_requests_per_minute starts
\* of an execution, whatever the coroutines of the client do; and a cache hit
\* starts no execution and records no request time.
C30_AtMostMaxPerWindow ==
    /\ \A i \in DOMAIN client.started :
          Cardinality({j \in DOMAIN client.started :
                          /\ client.started[j] >= client.started[i]
                          /\ client.started[j] < client.started[i] + 60})
          <= client.max_requests_per_minute
    /\ Len(client.started) =
          Cardinality({me \in Coroutines :
                          \/ client.co[me].pc = "executing"
                          \/ client.co[me].returned \in {"response", "Exception"}})
    /\ \A k \in DOMAIN client.request_times :
          \E j \in DOMAIN client.started :
             client.started[j] = client.request_times[k]

====
